---------------------------- MODULE Spec2Model ----------------------------
(***************************************************************************)
(* Package-manager job core of lastore-daemon (internal/system/apt):       *)
(* the dpkg lock sentinel, the pre-check, safe-start, the command runner   *)
(* with its progress reader, and the abort entry points.                   *)
(*                                                                         *)
(* Strings are TLA+ strings used as character sequences (Len, SubSeq, \o). *)
(* A float64 is NaN, an infinity, or a number m * 2^e (IEEE 754 binary64). *)
(***************************************************************************)
EXTENDS Integers, Sequences, FiniteSets, TLC

VARIABLES
    lock,        \* lock file -> "absent" | "free" | "ext" | the job whose child holds it
    op,          \* job -> facade operation called for it ("" before the call)
    arg,         \* job -> errType argument of FixError ("" otherwise)
    pc,          \* job -> position of the job's handler / goroutines
    ret,         \* job -> value the facade operation returned ("none" while it runs)
    scan,        \* job -> probes of the current scan of WaitDpkgLockRelease
    lastLocked,  \* job -> index of the file whose probe caused the last sleep (0: none)
    CmdSet,      \* APTSystem.CmdSet: ids with a registered command
    sim,         \* job -> the simulation run of safeStart
    proc,        \* job -> the job's real subprocess
    pipe,        \* job -> progress lines written by the child and not yet read
    written,     \* job -> number of progress lines the child has written
    events,      \* job -> records delivered to the Indicator, in order
    cancelable,  \* job -> Command.Cancelable, the flag of the latest record
    markFailed,  \* job -> AbortWithFailed has marked the job failed
    lastAbort,   \* outcome of the latest Abort / AbortWithFailed call
    lastQuery,   \* the latest step when it was a checkLock call: job, file, F_GETLK failed
    precheck,    \* job -> result of the operation's CheckPkgSystemError call ("none": not called)
    jstatus,     \* status of the UpdateSource job of the manager
    retry,       \* Job.retry of that job
    acquired,    \* source-list acquisition -> "none", "unref" (release callback) or "nil" (none)
    unrefCalls,  \* source-list acquisition -> number of calls of its release callback
    endHooks,    \* acquisitions released by the job's pre-hook of End, in call order
    retries,     \* number of times the job re-entered Ready from Failed
    jprogress,   \* Job.Progress of that job
    observed,    \* progress values observed for the job in its current command attempt
    hookpc,      \* position of the hook that is running next to the reader
    call,        \* latest call of a pure function: its name and arguments
    result,      \* what that call returned
    gpc,         \* position of generateUpdateInfo
    wg,          \* counter of its sync.WaitGroup
    wpc,         \* worker goroutine -> its position
    wres,        \* worker goroutine -> what its package-list call returned
    propPkgMap,  \* keys of the map the workers write
    raced,       \* two writes of the map have overlapped
    published    \* keys of the map handed to setClassifiedUpdatablePackages

aptVars == <<lock, op, arg, pc, ret, scan, lastLocked, CmdSet, sim, proc, pipe,
             written, events, cancelable, markFailed, lastAbort, lastQuery, precheck>>

jobVars == <<jstatus, retry, acquired, unrefCalls, endHooks, retries, jprogress,
             observed, hookpc>>

fnVars == <<call, result>>

genVars == <<gpc, wg, wpc, wres, propPkgMap, raced, published>>

vars == <<aptVars, jobVars, fnVars, genVars>>

(***************************************************************************)
(* Bounds of the model.                                                    *)
(***************************************************************************)
MaxLines == 2

JobIds == {"a", "b"}

UnknownId == "zz"

(***************************************************************************)
(* Program constants.                                                      *)
(***************************************************************************)
DpkgLock == "/var/lib/dpkg/lock"

DpkgLockFrontend == "/var/lib/dpkg/lock-frontend"

LockFiles == {DpkgLock, DpkgLockFrontend}

RemvDDE == "Remv dde "

ErrTypeDpkgInterrupted == "dpkgInterrupted"

ErrTypeDependenciesBroken == "dependenciesBroken"

ErrTypeInvalidSourcesList == "invalidSourceList"

ErrTypeUnknown == "unknown"

ErrorFetchFailed == "fetchFailed"

ErrorIndexDownloadFailed == "indexDownloadFailed"

ErrorInsufficientSpace == "insufficientSpace"

ErrorUnknown == "unknown"

NotFoundError == "notFound"

RunningStatus == "running"

FailedStatus == "failed"

SucceedStatus == "succeed"

EndStatus == "end"

Nil == "nil"

(***************************************************************************)
(* bytes.Contains / bytes.Index / strings.TrimSpace / strings.SplitN       *)
(***************************************************************************)
\* bytes.Index: 0-based index of the first occurrence of sub in s, -1 if none
Index(s, sub) ==
    LET hits == {i \in 0..(Len(s) - Len(sub)) : SubSeq(s, i + 1, i + Len(sub)) = sub}
    IN  IF hits = {} THEN -1 ELSE CHOOSE i \in hits : \A k \in hits : i <= k

Contains(s, sub) == Index(s, sub) # -1

\* unicode.IsSpace: the members are blank, \t, \n, \v, \f, \r, U+0085, U+00A0
\* and U+1680; the other Unicode spaces (U+2000..U+200A, U+2028, U+2029,
\* U+202F, U+205F, U+3000) cannot occur in a string of this module
IsSpace(c) == c \in {" ", "\t", "\n", "", "\f", "\r", "", " ", " "}

RECURSIVE TrimLeft(_)
TrimLeft(s) ==
    IF Len(s) > 0 /\ IsSpace(SubSeq(s, 1, 1)) THEN TrimLeft(SubSeq(s, 2, Len(s))) ELSE s

RECURSIVE TrimRight(_)
TrimRight(s) ==
    IF Len(s) > 0 /\ IsSpace(SubSeq(s, Len(s), Len(s)))
    THEN TrimRight(SubSeq(s, 1, Len(s) - 1)) ELSE s

TrimSpace(s) == TrimRight(TrimLeft(s))

\* strings.SplitN(s, sep, n) for n > 0 and a one-character sep
RECURSIVE SplitN(_, _, _)
SplitN(s, sep, n) ==
    LET i == Index(s, sep)
    IN  IF n <= 1 \/ i = -1 THEN <<s>>
        ELSE <<SubSeq(s, 1, i)>> \o SplitN(SubSeq(s, i + 2, Len(s)), sep, n - 1)

(***************************************************************************)
(* Natural numbers of any size, for the arithmetic of float64: a sequence  *)
(* of limbs in base 2^15, the least significant first, the last one not 0; *)
(* zero is the empty sequence.                                             *)
(***************************************************************************)
LimbBits == 15

RECURSIVE Pow2(_)
Pow2(n) == IF n = 0 THEN 1 ELSE 2 * Pow2(n - 1)

LimbBase == Pow2(LimbBits)

RECURSIVE BigOf(_)
BigOf(k) == IF k = 0 THEN <<>> ELSE <<k % LimbBase>> \o BigOf(k \div LimbBase)

\* the limbs of n * k + c, as many as n has, and the carry out of them:
\* the low half of n first, its carry into the high half
RECURSIVE MulAddLimbs(_, _, _)
RECURSIVE MulAddHigh(_, _, _)
MulAddLimbs(n, k, c) ==
    IF Len(n) = 1
    THEN [l |-> <<(n[1] * k + c) % LimbBase>>, c |-> (n[1] * k + c) \div LimbBase]
    ELSE MulAddHigh(n, k, MulAddLimbs(SubSeq(n, 1, Len(n) \div 2), k, c))

JoinLimbs(lo, hi) == [l |-> lo.l \o hi.l, c |-> hi.c]

MulAddHigh(n, k, lo) ==
    JoinLimbs(lo, MulAddLimbs(SubSeq(n, Len(n) \div 2 + 1, Len(n)), k, lo.c))

WithCarry(r) == r.l \o BigOf(r.c)

\* n * k + c for 0 < k <= LimbBase and 0 <= c < LimbBase
MulAdd(n, k, c) ==
    IF Len(n) = 0 THEN BigOf(c) ELSE WithCarry(MulAddLimbs(n, k, c))

Reverse(s) == [i \in 1..Len(s) |-> s[Len(s) + 1 - i]]

\* long division by k of the limbs n, the most significant first, with the
\* remainder r < k carried in: the limbs of the quotient and the remainder;
\* the high half of n first, its remainder into the low half
RECURSIVE DivRemLimbs(_, _, _)
RECURSIVE DivRemLow(_, _, _)
DivRemLimbs(n, k, r) ==
    IF Len(n) = 1
    THEN [q |-> <<(r * LimbBase + n[1]) \div k>>, r |-> (r * LimbBase + n[1]) % k]
    ELSE DivRemLow(n, k, DivRemLimbs(SubSeq(n, 1, Len(n) \div 2), k, r))

JoinQuotient(hi, lo) == [q |-> hi.q \o lo.q, r |-> lo.r]

DivRemLow(n, k, hi) ==
    JoinQuotient(hi, DivRemLimbs(SubSeq(n, Len(n) \div 2 + 1, Len(n)), k, hi.r))

\* the quotient with the least significant limb first and no 0 as the last
TrimQuotient(d) ==
    [q |-> Reverse(IF d.q[1] = 0 THEN Tail(d.q) ELSE d.q), r |-> d.r]

\* quotient and remainder of n by k, 0 < k <= LimbBase
DivRem(n, k) ==
    IF Len(n) = 0 THEN [q |-> <<>>, r |-> 0]
    ELSE TrimQuotient(DivRemLimbs(Reverse(n), k, 0))

RECURSIVE SmallBitLen(_)
SmallBitLen(k) == IF k = 0 THEN 0 ELSE 1 + SmallBitLen(k \div 2)

\* number of binary digits of n
BitLen(n) ==
    IF Len(n) = 0 THEN 0 ELSE LimbBits * (Len(n) - 1) + SmallBitLen(n[Len(n)])

\* n * 2^k
ShiftLeft(n, k) ==
    IF Len(n) = 0 THEN <<>>
    ELSE MulAdd([i \in 1..(k \div LimbBits) |-> 0] \o n, Pow2(k % LimbBits), 0)

\* the whole limbs that a shift right by k binary digits drops
LimbsOut(n, k) == IF k \div LimbBits > Len(n) THEN Len(n) ELSE k \div LimbBits

\* d is the division of the limbs of n above the a dropped ones
ShiftedOut(n, a, d) ==
    [q |-> d.q, sticky |-> d.r # 0 \/ \E i \in 1..a : n[i] # 0]

\* n \div 2^k, and whether a 1 was shifted out
ShiftRight(n, k) ==
    ShiftedOut(n, LimbsOut(n, k),
               DivRem(SubSeq(n, LimbsOut(n, k) + 1, Len(n)), Pow2(k % LimbBits)))

\* n * 10^p
RECURSIVE MulPow10(_, _)
MulPow10(n, p) ==
    IF p = 0 \/ Len(n) = 0 THEN n
    ELSE IF p = 1 THEN MulAdd(n, 10, 0)
    ELSE MulPow10(MulPow10(n, p \div 2), p - p \div 2)

Dropped(d, sticky) == [q |-> d.q, sticky |-> d.r # 0 \/ sticky]

OrSticky(d, sticky) == [q |-> d.q, sticky |-> d.sticky \/ sticky]

\* n \div 10^p, and whether a remainder was dropped
RECURSIVE DivPow10(_, _)
RECURSIVE DivPow10Rest(_, _)
DivPow10(n, p) ==
    IF p = 0 \/ Len(n) = 0 THEN [q |-> n, sticky |-> FALSE]
    ELSE IF p = 1 THEN Dropped(DivRem(n, 10), FALSE)
    ELSE DivPow10Rest(DivPow10(n, p \div 2), p - p \div 2)

DivPow10Rest(a, p) == OrSticky(DivPow10(a.q, p), a.sticky)

\* a < b
RECURSIVE BigLess(_, _)
BigLess(a, b) ==
    IF Len(a) # Len(b) THEN Len(a) < Len(b)
    ELSE IF Len(a) = 0 THEN FALSE
    ELSE IF a[Len(a)] # b[Len(b)] THEN a[Len(a)] < b[Len(b)]
    ELSE BigLess(SubSeq(a, 1, Len(a) - 1), SubSeq(b, 1, Len(b) - 1))

(***************************************************************************)
(* float64 (IEEE 754 binary64).  A value is NaN, +Inf, -Inf, or the number *)
(* (-1)^neg * m * 2^e with m < 2^53 and -1074 <= e <= 971, kept with       *)
(* m >= 2^52 unless e = -1074 (the subnormal numbers), and with m = 0,     *)
(* e = 0 for the two zeros, so that equal numbers other than the zeros are *)
(* equal records.  Results are rounded to nearest, ties to even.           *)
(***************************************************************************)
MantBits == 53

MinExp == -1074

MaxExp == 971

NaN == [cls |-> "nan", neg |-> FALSE, m |-> <<>>, e |-> 0]

Inf(sign) == [cls |-> "inf", neg |-> sign < 0, m |-> <<>>, e |-> 0]

\* the number m * 2^e of a mantissa in the kept form; Inf above the largest
Float(neg, m, e) ==
    IF Len(m) = 0 THEN [cls |-> "num", neg |-> neg, m |-> <<>>, e |-> 0]
    ELSE IF e > MaxExp THEN Inf(IF neg THEN -1 ELSE 1)
    ELSE [cls |-> "num", neg |-> neg, m |-> m, e |-> e]

\* d is the division by 2 of the mantissa with the rounding bit as its last
\* binary digit: up when the dropped part is more than a half, or a half and
\* the mantissa is odd (ties to even)
RoundUp(d, sticky) ==
    IF d.r = 1 /\ (sticky \/ (Len(d.q) > 0 /\ d.q[1] % 2 = 1))
    THEN MulAdd(d.q, 1, 1) ELSE d.q

\* rounding up can carry into one binary digit more
Renormal(neg, m, e) ==
    IF BitLen(m) > MantBits THEN Float(neg, DivRem(m, 2).q, e + 1)
    ELSE Float(neg, m, e)

\* s.q with the rounding bit as its last binary digit, at exponent e - 1:
\* rounded to nearest, ties to even
RoundHalf(neg, s, sticky, e) ==
    Renormal(neg, RoundUp(DivRem(s.q, 2), s.sticky \/ sticky), e)

\* the exponent of the result for q * 2^p2: MantBits binary digits, but no
\* exponent under MinExp
ExpOf(q, p2) ==
    IF p2 + BitLen(q) - MantBits < MinExp THEN MinExp
    ELSE p2 + BitLen(q) - MantBits

RoundAt(neg, q, sticky, p2, e) ==
    IF e <= p2 THEN Float(neg, ShiftLeft(q, p2 - e), e)
    ELSE RoundHalf(neg, ShiftRight(q, e - p2 - 1), sticky, e)

\* the float64 nearest to x * 2^p2, where x is q, or lies strictly between q
\* and q + 1 when sticky (then q has at least MantBits + 2 binary digits)
RoundBits(neg, q, sticky, p2) == RoundAt(neg, q, sticky, p2, ExpOf(q, p2))

\* 2^k > 10^n for k = BitsOfPow10(n)
BitsOfPow10(n) == (n * 3322) \div 1000 + 1

\* binary digits to add to n so that n \div 10^p keeps MantBits + 2 of them
Scale(n, p) ==
    IF BitsOfPow10(p) + MantBits + 3 > BitLen(n)
    THEN BitsOfPow10(p) + MantBits + 3 - BitLen(n) ELSE 0

RoundQuotient(neg, d, p2) == RoundBits(neg, d.q, d.sticky, p2)

\* the float64 nearest to n * 2^p2 \div 10^p, by way of n * 2^k \div 10^p
NearestQuotient(neg, n, p2, p, k) ==
    RoundQuotient(neg, DivPow10(ShiftLeft(n, k), p), p2 - k)

\* the float64 nearest to n * 2^p2 * 10^p10
Nearest(neg, n, p2, p10) ==
    IF Len(n) = 0 THEN Float(neg, <<>>, 0)
    ELSE IF ((BitLen(n) + p2 - 1) * 301) \div 1000 + p10 > 310
    THEN Inf(IF neg THEN -1 ELSE 1)
    ELSE IF ((BitLen(n) + p2) * 302) \div 1000 + 1 + p10 < -330 THEN Float(neg, <<>>, 0)
    ELSE IF p10 >= 0 THEN RoundBits(neg, MulPow10(n, p10), FALSE, p2)
    ELSE NearestQuotient(neg, n, p2, -p10, Scale(n, -p10))

\* the float64 of the decimal constant m * 10^e
F64(m, e) == Nearest(m < 0, BigOf(IF m < 0 THEN -m ELSE m), 0, e)

FZero == F64(0, 0)

FOne == F64(1, 0)

FMinusOne == F64(-1, 0)

IsZero(f) == f.cls = "num" /\ Len(f.m) = 0

\* |a| < |b| for values other than NaN
MagLess(a, b) ==
    IF a.cls = "inf" THEN FALSE
    ELSE IF b.cls = "inf" THEN TRUE
    ELSE IF IsZero(a) \/ IsZero(b) THEN ~IsZero(b)
    ELSE IF a.e # b.e THEN a.e < b.e
    ELSE BigLess(a.m, b.m)

\* a < b of float64: false when either is NaN
FLess(a, b) ==
    IF a.cls = "nan" \/ b.cls = "nan" THEN FALSE
    ELSE IF IsZero(a) /\ IsZero(b) THEN FALSE
    ELSE IF a.neg # b.neg THEN a.neg
    ELSE IF a.neg THEN MagLess(b, a) ELSE MagLess(a, b)

\* a == b of float64: false when either is NaN, true for the two zeros
FEqual(a, b) ==
    a.cls # "nan" /\ b.cls # "nan" /\ (a = b \/ (IsZero(a) /\ IsZero(b)))

\* a <= b of float64
FLeq(a, b) == FLess(a, b) \/ FEqual(a, b)

\* progress / 100.0
Div100(f) == IF f.cls = "num" THEN Nearest(f.neg, f.m, f.e, -2) ELSE f

(***************************************************************************)
(* strconv.ParseFloat(v, 64): "nan", the signed "inf" and "infinity" in    *)
(* any case, decimal numbers with optional fraction and exponent, and      *)
(* hexadecimal numbers with a binary exponent; '_' may separate digits.    *)
(* ok = FALSE is the error result (syntax, or value out of range).         *)
(***************************************************************************)
Digits == {"0", "1", "2", "3", "4", "5", "6", "7", "8", "9"}

UpperLetters == "ABCDEFGHIJKLMNOPQRSTUVWXYZ"

LowerLetters == "abcdefghijklmnopqrstuvwxyz"

\* lower(c) of one character
Lower(c) ==
    IF Contains(UpperLetters, c)
    THEN SubSeq(LowerLetters, Index(UpperLetters, c) + 1, Index(UpperLetters, c) + 1)
    ELSE c

RECURSIVE LowerString(_)
LowerString(s) ==
    IF Len(s) = 0 THEN ""
    ELSE Lower(SubSeq(s, 1, 1)) \o LowerString(SubSeq(s, 2, Len(s)))

HexLetters == "abcdef"

IsDigit(c, hex) == c \in Digits \/ (hex /\ Contains(HexLetters, Lower(c)))

DigitVal(c) ==
    IF c \in Digits THEN Index("0123456789", c) ELSE 10 + Index(HexLetters, Lower(c))

\* value of a string of at most three digits in the base
RECURSIVE SmallVal(_, _)
SmallVal(s, base) ==
    IF Len(s) = 0 THEN 0
    ELSE base * SmallVal(SubSeq(s, 1, Len(s) - 1), base)
         + DigitVal(SubSeq(s, Len(s), Len(s)))

\* value of a digit string in the base, three digits at a time
RECURSIVE NatVal(_, _)
NatVal(s, base) ==
    IF Len(s) <= 3 THEN BigOf(SmallVal(s, base))
    ELSE MulAdd(NatVal(SubSeq(s, 1, Len(s) - 3), base), base * base * base,
                SmallVal(SubSeq(s, Len(s) - 2, Len(s)), base))

\* the digits of s, its '_' left out
RECURSIVE DigitsOf(_)
DigitsOf(s) ==
    IF Len(s) = 0 THEN ""
    ELSE (IF SubSeq(s, 1, 1) = "_" THEN "" ELSE SubSeq(s, 1, 1))
         \o DigitsOf(SubSeq(s, 2, Len(s)))

\* special(s): the infinities and NaN
Special(v) ==
    LET signed == Len(v) > 0 /\ SubSeq(v, 1, 1) \in {"-", "+"}
        neg    == Len(v) > 0 /\ SubSeq(v, 1, 1) = "-"
        body   == LowerString(IF signed THEN SubSeq(v, 2, Len(v)) ELSE v)
    IN  IF body \in {"inf", "infinity"}
        THEN [ok |-> TRUE, val |-> Inf(IF neg THEN -1 ELSE 1)]
        ELSE IF ~signed /\ body = "nan" THEN [ok |-> TRUE, val |-> NaN]
        ELSE [ok |-> FALSE, val |-> NaN]

\* readFloat: length of the mantissa, made of digits, '_' and the first '.'
RECURSIVE MantLen(_, _, _)
MantLen(s, hex, sawdot) ==
    IF Len(s) = 0 THEN 0
    ELSE LET c == SubSeq(s, 1, 1)
             rest == SubSeq(s, 2, Len(s))
         IN  IF c = "_" \/ IsDigit(c, hex) THEN 1 + MantLen(rest, hex, sawdot)
             ELSE IF c = "." /\ ~sawdot THEN 1 + MantLen(rest, hex, TRUE)
             ELSE 0

\* underscoreOK: a '_' follows a digit or the base prefix and precedes a digit;
\* prev is "^" at the start, "0" after a digit or the prefix, "_" or "!"
RECURSIVE UnderscoreScan(_, _, _)
UnderscoreScan(s, hex, prev) ==
    IF Len(s) = 0 THEN prev # "_"
    ELSE LET c == SubSeq(s, 1, 1)
             rest == SubSeq(s, 2, Len(s))
         IN  IF IsDigit(c, hex) THEN UnderscoreScan(rest, hex, "0")
             ELSE IF c = "_" THEN prev = "0" /\ UnderscoreScan(rest, hex, "_")
             ELSE prev # "_" /\ UnderscoreScan(rest, hex, "!")

underscoreOK(body) ==
    LET hex == Len(body) >= 2 /\ SubSeq(body, 1, 1) = "0" /\ Lower(SubSeq(body, 2, 2)) = "x"
    IN  IF hex THEN UnderscoreScan(SubSeq(body, 3, Len(body)), TRUE, "0")
        ELSE UnderscoreScan(body, FALSE, "^")

\* the exponent digits: "if e < 10000 { e = e*10 + digit }"
RECURSIVE ExpVal(_, _)
ExpVal(s, e) ==
    IF Len(s) = 0 THEN e
    ELSE ExpVal(SubSeq(s, 2, Len(s)),
                IF e < 10000 THEN e * 10 + DigitVal(SubSeq(s, 1, 1)) ELSE e)

\* the error result of ParseFloat
FloatError == [ok |-> FALSE, val |-> FZero]

\* the result for the nearest float64: ErrRange when it is an infinity
FloatOf(f) == IF f.cls = "inf" THEN FloatError ELSE [ok |-> TRUE, val |-> f]

\* readFloat: the exponent, the rest of the text after the mantissa; a
\* hexadecimal mantissa must have one, and nothing else may follow
ReadExponent(tail, hex) ==
    IF Len(tail) = 0 THEN [ok |-> ~hex, exp |-> 0]
    ELSE IF Lower(SubSeq(tail, 1, 1)) # (IF hex THEN "p" ELSE "e")
    THEN [ok |-> FALSE, exp |-> 0]
    ELSE LET ex      == SubSeq(tail, 2, Len(tail))
             esigned == Len(ex) > 0 /\ SubSeq(ex, 1, 1) \in {"-", "+"}
             edigits == IF esigned THEN SubSeq(ex, 2, Len(ex)) ELSE ex
         IN  IF /\ Len(edigits) > 0 /\ SubSeq(edigits, 1, 1) \in Digits
                /\ \A i \in 1..Len(edigits) : SubSeq(edigits, i, i) \in Digits \cup {"_"}
             THEN [ok |-> TRUE,
                   exp |-> (IF SubSeq(ex, 1, 1) = "-" THEN -1 ELSE 1)
                           * ExpVal(DigitsOf(edigits), 0)]
             ELSE [ok |-> FALSE, exp |-> 0]

\* the digits of the mantissa before and after its '.'
IntPart(mant) ==
    DigitsOf(IF Index(mant, ".") = -1 THEN mant ELSE SubSeq(mant, 1, Index(mant, ".")))

FracPart(mant) ==
    DigitsOf(IF Index(mant, ".") = -1 THEN ""
             ELSE SubSeq(mant, Index(mant, ".") + 2, Len(mant)))

\* the value of the digits ip.fp with the exponent exp: decimal, or
\* hexadecimal with a binary exponent
FloatValue(neg, hex, ip, fp, exp) ==
    IF hex THEN FloatOf(Nearest(neg, NatVal(ip \o fp, 16), exp - 4 * Len(fp), 0))
    ELSE FloatOf(Nearest(neg, NatVal(ip \o fp, 10), 0, exp - Len(fp)))

\* readFloat after the sign and the base prefix
ReadNumber(neg, hex, num) ==
    LET ml   == MantLen(num, hex, FALSE)
        mant == SubSeq(num, 1, ml)
        x    == ReadExponent(SubSeq(num, ml + 1, Len(num)), hex)
    IN  IF Len(IntPart(mant)) + Len(FracPart(mant)) = 0 \/ ~x.ok THEN FloatError
        ELSE FloatValue(neg, hex, IntPart(mant), FracPart(mant), x.exp)

\* readFloat and the conversion to the value
ReadFloat(v) ==
    LET signed == Len(v) > 0 /\ SubSeq(v, 1, 1) \in {"-", "+"}
        neg    == Len(v) > 0 /\ SubSeq(v, 1, 1) = "-"
        body   == IF signed THEN SubSeq(v, 2, Len(v)) ELSE v
    IN  IF Contains(body, "_") /\ ~underscoreOK(body) THEN FloatError
        ELSE IF /\ Len(body) > 2 /\ SubSeq(body, 1, 1) = "0"
                /\ Lower(SubSeq(body, 2, 2)) = "x"
        THEN ReadNumber(neg, TRUE, SubSeq(body, 3, Len(body)))
        ELSE ReadNumber(neg, FALSE, body)

ParseFloat(v) == IF Special(v).ok THEN Special(v) ELSE ReadFloat(v)

\* parseProgressField: (-1, error) when the field is no number
parseProgressField(v) ==
    LET r == ParseFloat(v)
    IN  IF r.ok THEN [progress |-> r.val, err |-> FALSE]
        ELSE [progress |-> FMinusOne, err |-> TRUE]

(***************************************************************************)
(* parseProgressInfo: one line of the progress stream to a record, or an   *)
(* error (err = TRUE, and only JobId is set).                              *)
(***************************************************************************)
ParseError(id) ==
    [err |-> TRUE, JobId |-> id, Progress |-> FZero, Description |-> "",
     Status |-> "", Cancelable |-> FALSE]

\* Variant of ProgressInfoOf: a pmstatus record is cancelable
ProgressInfoOf_PmCancelable(id, infoType, statusField, progress, description) ==
    CASE infoType = "dummy" ->
            [err |-> FALSE, JobId |-> id, Progress |-> progress,
             Description |-> description, Status |-> statusField, Cancelable |-> TRUE]
      [] infoType \in {"dlstatus", "pmstatus"} ->
            [err |-> FALSE, JobId |-> id, Progress |-> Div100(progress),
             Description |-> description, Status |-> RunningStatus, Cancelable |-> TRUE]
      [] infoType = "pmerror" ->
            [err |-> FALSE, JobId |-> id, Progress |-> FMinusOne,
             Description |-> description, Status |-> FailedStatus, Cancelable |-> TRUE]
      [] OTHER -> ParseError(id)

\* Variant of ProgressInfoOf: a pmerror record keeps the progress of the line
ProgressInfoOf_PmerrorKeepsProgress(id, infoType, statusField, progress, description) ==
    CASE infoType = "dummy" ->
            [err |-> FALSE, JobId |-> id, Progress |-> progress,
             Description |-> description, Status |-> statusField, Cancelable |-> TRUE]
      [] infoType = "dlstatus" ->
            [err |-> FALSE, JobId |-> id, Progress |-> Div100(progress),
             Description |-> description, Status |-> RunningStatus, Cancelable |-> TRUE]
      [] infoType = "pmstatus" ->
            [err |-> FALSE, JobId |-> id, Progress |-> Div100(progress),
             Description |-> description, Status |-> RunningStatus, Cancelable |-> FALSE]
      [] infoType = "pmerror" ->
            [err |-> FALSE, JobId |-> id, Progress |-> Div100(progress),
             Description |-> description, Status |-> FailedStatus, Cancelable |-> TRUE]
      [] OTHER -> ParseError(id)

\* Variant of ProgressInfoOf: a dummy record has the running status
ProgressInfoOf_DummyRunning(id, infoType, statusField, progress, description) ==
    CASE infoType = "dummy" ->
            [err |-> FALSE, JobId |-> id, Progress |-> progress,
             Description |-> description, Status |-> RunningStatus, Cancelable |-> TRUE]
      [] infoType = "dlstatus" ->
            [err |-> FALSE, JobId |-> id, Progress |-> Div100(progress),
             Description |-> description, Status |-> RunningStatus, Cancelable |-> TRUE]
      [] infoType = "pmstatus" ->
            [err |-> FALSE, JobId |-> id, Progress |-> Div100(progress),
             Description |-> description, Status |-> RunningStatus, Cancelable |-> FALSE]
      [] infoType = "pmerror" ->
            [err |-> FALSE, JobId |-> id, Progress |-> FMinusOne,
             Description |-> description, Status |-> FailedStatus, Cancelable |-> TRUE]
      [] OTHER -> ParseError(id)

\* Variant of ProgressInfoOf: a dlstatus record keeps the status field of the line
ProgressInfoOf_DlStatusVerbatim(id, infoType, statusField, progress, description) ==
    CASE infoType = "dummy" ->
            [err |-> FALSE, JobId |-> id, Progress |-> progress,
             Description |-> description, Status |-> statusField, Cancelable |-> TRUE]
      [] infoType = "dlstatus" ->
            [err |-> FALSE, JobId |-> id, Progress |-> Div100(progress),
             Description |-> description, Status |-> statusField, Cancelable |-> TRUE]
      [] infoType = "pmstatus" ->
            [err |-> FALSE, JobId |-> id, Progress |-> Div100(progress),
             Description |-> description, Status |-> RunningStatus, Cancelable |-> FALSE]
      [] infoType = "pmerror" ->
            [err |-> FALSE, JobId |-> id, Progress |-> FMinusOne,
             Description |-> description, Status |-> FailedStatus, Cancelable |-> TRUE]
      [] OTHER -> ParseError(id)

ProgressInfoOf(id, infoType, statusField, progress, description) ==
    CASE infoType = "dummy" ->
            [err |-> FALSE, JobId |-> id, Progress |-> progress,
             Description |-> description, Status |-> statusField, Cancelable |-> TRUE]
      [] infoType = "dlstatus" ->
            [err |-> FALSE, JobId |-> id, Progress |-> Div100(progress),
             Description |-> description, Status |-> RunningStatus, Cancelable |-> TRUE]
      [] infoType = "pmstatus" ->
            [err |-> FALSE, JobId |-> id, Progress |-> Div100(progress),
             Description |-> description, Status |-> RunningStatus, Cancelable |-> FALSE]
      [] infoType = "pmerror" ->
            [err |-> FALSE, JobId |-> id, Progress |-> FMinusOne,
             Description |-> description, Status |-> FailedStatus, Cancelable |-> TRUE]
      [] OTHER -> ParseError(id)

\* Variant of parseProgressInfo: the line is split at every ':'
parseProgressInfo_SplitAll(id, line) ==
    LET fs == SplitN(line, ":", Len(line) + 1)
    IN  IF Len(fs) # 4 THEN ParseError(id)
        ELSE LET p == parseProgressField(fs[3])
             IN  IF p.err THEN ParseError(id)
                 ELSE ProgressInfoOf(id, fs[1], fs[2], p.progress, TrimSpace(fs[4]))

parseProgressInfo(id, line) ==
    LET fs == SplitN(line, ":", 4)
    IN  IF Len(fs) # 4 THEN ParseError(id)
        ELSE LET p == parseProgressField(fs[3])
             IN  IF p.err THEN ParseError(id)
                 ELSE ProgressInfoOf(id, fs[1], fs[2], p.progress, TrimSpace(fs[4]))

\* lastAbort when the latest step was no abort call
NoAbort == [called |-> FALSE, id |-> "", registered |-> FALSE, inPm |-> FALSE, running |-> FALSE,
            res |-> "", signal |-> FALSE, mark |-> FALSE]

(***************************************************************************)
(* Lock sentinel.  checkLock(p) opens the file and asks for a conflicting  *)
(* write lock with F_GETLK; qerr is the outcome "the query itself failed". *)
(***************************************************************************)
\* lastQuery when the latest step was no checkLock call
NoQuery == [called |-> FALSE, id |-> "", file |-> "", failed |-> FALSE]

\* lastQuery after checkLock(p) of job j: syscall.FcntlFlock is reached when
\* the file was opened, and qerr is whether it returned an error
Query(j, p, qerr) ==
    [called |-> TRUE, id |-> j, file |-> p, failed |-> lock[p] # "absent" /\ qerr]

\* Variant of checkLock: a file that cannot be opened counts as locked
checkLock_OpenFailureWaits(p, qerr) ==
    IF lock[p] = "absent" THEN [msg |-> p, wait |-> TRUE]
    ELSE IF qerr THEN [msg |-> p, wait |-> TRUE]
    ELSE IF lock[p] # "free" THEN [msg |-> p, wait |-> TRUE]
    ELSE [msg |-> "", wait |-> FALSE]

\* Variant of checkLock: a lock query that fails counts as not locked
checkLock_QueryFailureFree(p, qerr) ==
    IF lock[p] = "absent" THEN [msg |-> "", wait |-> FALSE]
    ELSE IF qerr THEN [msg |-> "", wait |-> FALSE]
    ELSE IF lock[p] # "free" THEN [msg |-> p, wait |-> TRUE]
    ELSE [msg |-> "", wait |-> FALSE]

checkLock(p, qerr) ==
    IF lock[p] = "absent" THEN [msg |-> "", wait |-> FALSE]      \* os.Open failed
    ELSE IF qerr THEN [msg |-> p, wait |-> TRUE]                 \* FcntlFlock failed
    ELSE IF lock[p] # "free" THEN [msg |-> p, wait |-> TRUE]     \* F_WRLCK reported
    ELSE [msg |-> "", wait |-> FALSE]

Probe(p, r) == [file |-> p, wait |-> r.wait]

\* Variant of WaitProbeLock: returns as soon as the first file is free
WaitProbeLock_SkipFrontend(j, qerr) ==
    LET r == checkLock(DpkgLock, qerr)
    IN  /\ scan' = [scan EXCEPT ![j] = Append(@, Probe(DpkgLock, r))]
        /\ IF r.wait
           THEN pc' = [pc EXCEPT ![j] = "sleep"] /\ lastLocked' = [lastLocked EXCEPT ![j] = 1]
           ELSE pc' = [pc EXCEPT ![j] = "waited"] /\ lastLocked' = [lastLocked EXCEPT ![j] = 0]

\* WaitDpkgLockRelease, first probe of a scan
WaitProbeLock(j, qerr) ==
    LET r == checkLock(DpkgLock, qerr)
    IN  /\ scan' = [scan EXCEPT ![j] = Append(@, Probe(DpkgLock, r))]
        /\ IF r.wait
           THEN pc' = [pc EXCEPT ![j] = "sleep"] /\ lastLocked' = [lastLocked EXCEPT ![j] = 1]
           ELSE pc' = [pc EXCEPT ![j] = "probe2"] /\ UNCHANGED lastLocked

\* WaitDpkgLockRelease, second probe of a scan; no wait: return
WaitProbeFrontend(j, qerr) ==
    LET r == checkLock(DpkgLockFrontend, qerr)
    IN  /\ scan' = [scan EXCEPT ![j] = Append(@, Probe(DpkgLockFrontend, r))]
        /\ IF r.wait
           THEN pc' = [pc EXCEPT ![j] = "sleep"] /\ lastLocked' = [lastLocked EXCEPT ![j] = 2]
           ELSE pc' = [pc EXCEPT ![j] = "waited"] /\ lastLocked' = [lastLocked EXCEPT ![j] = 0]

\* Variant of WaitSleep: after the sleep the file that was locked is probed again
WaitSleep_ResumeAtLocked(j) ==
    /\ pc' = [pc EXCEPT ![j] = IF lastLocked[j] = 2 THEN "probe2" ELSE "probe1"]
    /\ scan' = [scan EXCEPT ![j] = <<>>]
    /\ UNCHANGED lastLocked

\* time.Sleep(5s); continue: the scan restarts at the first file
WaitSleep(j) ==
    /\ pc' = [pc EXCEPT ![j] = "probe1"]
    /\ scan' = [scan EXCEPT ![j] = <<>>]
    /\ UNCHANGED lastLocked

WaitDpkgLockRelease(j) ==
    /\ \/ /\ pc[j] = "probe1"
          /\ \E qerr \in BOOLEAN :
                WaitProbeLock(j, qerr) /\ lastQuery' = Query(j, DpkgLock, qerr)
       \/ /\ pc[j] = "probe2"
          /\ \E qerr \in BOOLEAN :
                WaitProbeFrontend(j, qerr) /\ lastQuery' = Query(j, DpkgLockFrontend, qerr)
       \/ pc[j] = "sleep" /\ WaitSleep(j) /\ lastQuery' = NoQuery
    /\ lastAbort' = NoAbort /\ UNCHANGED <<jobVars, fnVars, genVars>>
    /\ UNCHANGED <<lock, op, arg, ret, CmdSet, sim, proc, pipe, written, events,
                   cancelable, markFailed, precheck>>

(***************************************************************************)
(* Error classifier.  An error is [Type, Detail]; Type = "" is nil.        *)
(***************************************************************************)
NoError == [Type |-> "", Detail |-> ""]

IsNil(e) == e.Type = ""

UnmetHeader == "The following packages have unmet dependencies:"

\* Variant of parsePkgSystemError: a stderr without a known marker is no error
parsePkgSystemError_NilOnUnknown(out, err) ==
    IF Len(err) = 0 THEN NoError
    ELSE IF Contains(err, "dpkg was interrupted")
    THEN [Type |-> ErrTypeDpkgInterrupted, Detail |-> ""]
    ELSE IF Contains(err, "Unmet dependencies")
    THEN LET idx == Index(out, UnmetHeader)
         IN  [Type |-> ErrTypeDependenciesBroken,
              Detail |-> IF idx = -1 THEN out ELSE SubSeq(out, idx + 1, Len(out))]
    ELSE IF Contains(err, "The list of sources could not be read")
    THEN [Type |-> ErrTypeInvalidSourcesList, Detail |-> err]
    ELSE NoError

\* Variant of parsePkgSystemError: "Unmet dependencies" is looked for first
parsePkgSystemError_UnmetFirst(out, err) ==
    IF Len(err) = 0 THEN NoError
    ELSE IF Contains(err, "Unmet dependencies")
    THEN LET idx == Index(out, UnmetHeader)
         IN  [Type |-> ErrTypeDependenciesBroken,
              Detail |-> IF idx = -1 THEN out ELSE SubSeq(out, idx + 1, Len(out))]
    ELSE IF Contains(err, "dpkg was interrupted")
    THEN [Type |-> ErrTypeDpkgInterrupted, Detail |-> ""]
    ELSE IF Contains(err, "The list of sources could not be read")
    THEN [Type |-> ErrTypeInvalidSourcesList, Detail |-> err]
    ELSE [Type |-> ErrTypeUnknown, Detail |-> err]

parsePkgSystemError(out, err) ==
    IF Len(err) = 0 THEN NoError
    ELSE IF Contains(err, "dpkg was interrupted")
    THEN [Type |-> ErrTypeDpkgInterrupted, Detail |-> ""]
    ELSE IF Contains(err, "Unmet dependencies")
    THEN LET idx == Index(out, UnmetHeader)
         IN  [Type |-> ErrTypeDependenciesBroken,
              Detail |-> IF idx = -1 THEN out ELSE SubSeq(out, idx + 1, Len(out))]
    ELSE IF Contains(err, "The list of sources could not be read")
    THEN [Type |-> ErrTypeInvalidSourcesList, Detail |-> err]
    ELSE [Type |-> ErrTypeUnknown, Detail |-> err]

\* One run of "apt-get check": exit status and captured output
AptCheckRuns ==
    { [exitOk |-> TRUE,  out |-> "", err |-> ""],
      [exitOk |-> FALSE, out |-> "", err |-> "E: dpkg was interrupted, run dpkg --configure -a"],
      [exitOk |-> FALSE, out |-> "x\n" \o UnmetHeader \o "\n a", err |-> "E: Unmet dependencies."],
      [exitOk |-> FALSE, out |-> "", err |-> "E: The list of sources could not be read."],
      [exitOk |-> FALSE, out |-> "", err |-> "E: Could not get lock"],
      [exitOk |-> FALSE, out |-> "", err |-> ""] }

\* Variant of CheckPkgSystemError: the stderr of a failed run is returned as it is
CheckPkgSystemError_RawStderr(lockArg, run) ==
    IF run.exitOk THEN NoError ELSE [Type |-> run.err, Detail |-> run.out]

\* CheckPkgSystemError(lock): nil when the run succeeded, else the classification
CheckPkgSystemError(lockArg, run) ==
    IF run.exitOk THEN NoError ELSE parsePkgSystemError(run.out, run.err)

\* parseJobError(stderr, stdout): the job-level classification; never nil
parseJobError(stderr, stdout) ==
    LET e == parsePkgSystemError(stdout, stderr)
    IN  IF IsNil(e) THEN [Type |-> ErrorUnknown, Detail |-> stderr] ELSE e

(***************************************************************************)
(* Records delivered to the Indicator.                                     *)
(***************************************************************************)
\* kind of a progress record: the first field of the line it was parsed from
ProgressRec(info, line) ==
    [type |-> "progress", status |-> info.Status, kind |-> SplitN(line, ":", 4)[1],
     cancelable |-> info.Cancelable, progress |-> info.Progress]

FailedRec(kind, isCancelable) ==
    [type |-> "terminal", status |-> FailedStatus, kind |-> kind,
     cancelable |-> isCancelable, progress |-> FMinusOne]

SucceedRec ==
    [type |-> "terminal", status |-> SucceedStatus, kind |-> "",
     cancelable |-> TRUE, progress |-> FOne]

EndRec ==
    [type |-> "end", status |-> EndStatus, kind |-> "",
     cancelable |-> TRUE, progress |-> FOne]

\* Command.IndicateFailed(kind, detail, cancelable): one Failed record
IndicateFailed(j, kind, isCancelable) ==
    /\ events' = [events EXCEPT ![j] = Append(@, FailedRec(kind, isCancelable))]
    /\ cancelable' = [cancelable EXCEPT ![j] = isCancelable]

(***************************************************************************)
(* Commands.                                                               *)
(***************************************************************************)
MutatingOps == {"Install", "Remove", "DistUpgrade", "FixError"}

DirectOps == {"DownloadPackages", "DownloadSource", "UpdateSource", "Clean"}

NoSim == [exit |-> "none", out |-> "", err |-> ""]

NoProc == [state |-> "none", attempts |-> 0, lockAtStart |-> "n/a",
           exitOk |-> TRUE, stderr |-> ""]

LockIsFree == \A f \in LockFiles : lock[f] \in {"free", "absent"}

\* newAPTCommand(p, jobId, ...): the command is registered in p.CmdSet
newAPTCommand(j) ==
    /\ CmdSet' = CmdSet \cup {j}
    /\ cancelable' = [cancelable EXCEPT ![j] = TRUE]

\* Command.Start(): fork/exec of the real apt-get.  A child of a mutating
\* operation takes the dpkg lock when it is free and fails to take it when not.
CommandStart(j, o, ok) ==
    IF ok
    THEN /\ proc' = [proc EXCEPT ![j] =
                [state |-> "running", attempts |-> 1,
                 lockAtStart |-> IF o \notin MutatingOps THEN "n/a"
                                 ELSE IF LockIsFree THEN "free" ELSE "held",
                 exitOk |-> TRUE, stderr |-> ""]]
         /\ lock' = IF o \in MutatingOps /\ LockIsFree
                    THEN [f \in LockFiles |-> j] ELSE lock
    ELSE /\ proc' = [proc EXCEPT ![j].attempts = 1]
         /\ lock' = lock

Returned(j, e) ==
    /\ ret' = [ret EXCEPT ![j] = e]
    /\ pc' = [pc EXCEPT ![j] = "returned"]

\* "return c.Start()" of the operations that start their command directly
StartDirect(j, o, ok) ==
    /\ CommandStart(j, o, ok)
    /\ IF ok
       THEN ret' = [ret EXCEPT ![j] = Nil] /\ pc' = [pc EXCEPT ![j] = "running"]
       ELSE Returned(j, "startError")
    /\ UNCHANGED events

(***************************************************************************)
(* safeStart(c): the synchronous part starts the simulation "apt-get -s";  *)
(* the goroutine waits for it and vetoes or starts the real command.       *)
(***************************************************************************)
SimRuns ==
    { [exitOk |-> FALSE, out |-> "Remv dde [1]\n", err |-> "E: Unmet dependencies."],
      [exitOk |-> FALSE, out |-> "", err |-> ""],
      [exitOk |-> TRUE,  out |-> "Inst a (1 x)\nRemv dde [1]\n", err |-> ""],
      [exitOk |-> TRUE,  out |-> "Remv dde-core [1]\n", err |-> ""] }

\* Variant of safeStart: a simulation that fails to start is reported as Failed
safeStart_IndicateOnFailure(j, simStartOk) ==
    IF simStartOk
    THEN /\ ret' = [ret EXCEPT ![j] = Nil]
         /\ pc' = [pc EXCEPT ![j] = "sim"]
         /\ sim' = [sim EXCEPT ![j].exit = "running"]
         /\ UNCHANGED events
    ELSE /\ ret' = [ret EXCEPT ![j] = Nil]
         /\ pc' = [pc EXCEPT ![j] = "terminal"]
         /\ sim' = [sim EXCEPT ![j].exit = "nostart"]
         /\ events' = [events EXCEPT ![j] = Append(@, FailedRec(ErrorUnknown, FALSE))]

safeStart(j, simStartOk) ==
    /\ IF simStartOk
       THEN /\ ret' = [ret EXCEPT ![j] = Nil]
            /\ pc' = [pc EXCEPT ![j] = "sim"]
            /\ sim' = [sim EXCEPT ![j].exit = "running"]
       ELSE /\ Returned(j, "startError")
            /\ sim' = [sim EXCEPT ![j].exit = "nostart"]
    /\ UNCHANGED events

\* Variant of SafeStartGoroutine: no return after the failed simulation
SafeStartGoroutine_NoReturn(j, run, startOk) ==
    /\ sim' = [sim EXCEPT ![j] = [exit |-> IF run.exitOk THEN "ok" ELSE "fail",
                                  out |-> run.out, err |-> run.err]]
    /\ IF run.exitOk /\ Contains(run.out, RemvDDE)
       THEN /\ IndicateFailed(j, "removeDDE", TRUE)
            /\ pc' = [pc EXCEPT ![j] = "terminal"]
            /\ UNCHANGED <<proc, lock>>
       ELSE /\ CommandStart(j, op[j], startOk)
            /\ IF ~run.exitOk
               THEN /\ IndicateFailed(j, parseJobError(run.err, run.out).Type, FALSE)
                    /\ pc' = [pc EXCEPT ![j] = IF startOk THEN "running" ELSE "terminal"]
               ELSE IF startOk
               THEN /\ pc' = [pc EXCEPT ![j] = "running"]
                    /\ UNCHANGED <<events, cancelable>>
               ELSE /\ IndicateFailed(j, ErrorUnknown, FALSE)
                    /\ pc' = [pc EXCEPT ![j] = "terminal"]

\* Variant of SafeStartGoroutine: the marker is matched without its trailing blank
SafeStartGoroutine_LooseMarker(j, run, startOk) ==
    /\ sim' = [sim EXCEPT ![j] = [exit |-> IF run.exitOk THEN "ok" ELSE "fail",
                                  out |-> run.out, err |-> run.err]]
    /\ IF ~run.exitOk
       THEN /\ IndicateFailed(j, parseJobError(run.err, run.out).Type, FALSE)
            /\ pc' = [pc EXCEPT ![j] = "terminal"]
            /\ UNCHANGED <<proc, lock>>
       ELSE IF Contains(run.out, "Remv dde")
       THEN /\ IndicateFailed(j, "removeDDE", TRUE)
            /\ pc' = [pc EXCEPT ![j] = "terminal"]
            /\ UNCHANGED <<proc, lock>>
       ELSE /\ CommandStart(j, op[j], startOk)
            /\ IF startOk
               THEN /\ pc' = [pc EXCEPT ![j] = "running"]
                    /\ UNCHANGED <<events, cancelable>>
               ELSE /\ IndicateFailed(j, ErrorUnknown, FALSE)
                    /\ pc' = [pc EXCEPT ![j] = "terminal"]

SafeStartGoroutine(j, run, startOk) ==
    /\ sim' = [sim EXCEPT ![j] = [exit |-> IF run.exitOk THEN "ok" ELSE "fail",
                                  out |-> run.out, err |-> run.err]]
    /\ IF ~run.exitOk
       THEN /\ IndicateFailed(j, parseJobError(run.err, run.out).Type, FALSE)
            /\ pc' = [pc EXCEPT ![j] = "terminal"]
            /\ UNCHANGED <<proc, lock>>
       ELSE IF Contains(run.out, RemvDDE)
       THEN /\ IndicateFailed(j, "removeDDE", TRUE)
            /\ pc' = [pc EXCEPT ![j] = "terminal"]
            /\ UNCHANGED <<proc, lock>>
       ELSE /\ CommandStart(j, op[j], startOk)
            /\ IF startOk
               THEN /\ pc' = [pc EXCEPT ![j] = "running"]
                    /\ UNCHANGED <<events, cancelable>>
               ELSE /\ IndicateFailed(j, ErrorUnknown, FALSE)
                    /\ pc' = [pc EXCEPT ![j] = "terminal"]

SafeStartWait(j) ==
    /\ pc[j] = "sim"
    /\ \E run \in SimRuns, startOk \in BOOLEAN : SafeStartGoroutine(j, run, startOk)
    /\ lastAbort' = NoAbort /\ lastQuery' = NoQuery /\ UNCHANGED <<jobVars, fnVars, genVars>>
    /\ UNCHANGED <<op, arg, ret, scan, lastLocked, CmdSet, pipe, written,
                   markFailed, precheck>>

(***************************************************************************)
(* Facade operations.  A mutating operation first waits for the dpkg lock; *)
(* its handler resumes when WaitDpkgLockRelease has returned.              *)
(***************************************************************************)
Enter(j, o, a, first) ==
    /\ pc[j] = "idle"
    /\ op' = [op EXCEPT ![j] = o]
    /\ arg' = [arg EXCEPT ![j] = a]
    /\ pc' = [pc EXCEPT ![j] = first]
    /\ lastAbort' = NoAbort /\ lastQuery' = NoQuery /\ UNCHANGED <<jobVars, fnVars, genVars>>
    /\ UNCHANGED <<lock, ret, scan, lastLocked, CmdSet, sim, proc, pipe, written,
                   events, cancelable, markFailed, precheck>>

Remove(j) == Enter(j, "Remove", "", "probe1")

Install(j) == Enter(j, "Install", "", "probe1")

DistUpgrade(j) == Enter(j, "DistUpgrade", "", "probe1")

FixError(j, errType) == Enter(j, "FixError", errType, "probe1")

\* precheck before any CheckPkgSystemError call of the operation
NoCheck == [called |-> FALSE, lock |-> FALSE, res |-> ""]

\* precheck after CheckPkgSystemError(lockArg) returned err
Checked(lockArg, err) ==
    [called |-> TRUE, lock |-> lockArg, res |-> IF IsNil(err) THEN Nil ELSE err.Type]

\* after the pre-check: return its error, or create the command and safe-start it
CheckedSafeStart(j, err, simStartOk) ==
    IF ~IsNil(err)
    THEN /\ Returned(j, err.Type)
         /\ UNCHANGED <<CmdSet, cancelable, events, sim>>
    ELSE /\ newAPTCommand(j)
         /\ safeStart(j, simStartOk)

RemoveResume(j) ==
    /\ pc[j] = "waited" /\ op[j] = "Remove"
    /\ \E run \in AptCheckRuns, simStartOk \in BOOLEAN :
          LET err == CheckPkgSystemError(TRUE, run)
          IN  /\ precheck' = [precheck EXCEPT ![j] = Checked(TRUE, err)]
              /\ CheckedSafeStart(j, err, simStartOk)
    /\ lastAbort' = NoAbort /\ lastQuery' = NoQuery /\ UNCHANGED <<jobVars, fnVars, genVars>>
    /\ UNCHANGED <<lock, op, arg, scan, lastLocked, proc, pipe, written, markFailed>>

InstallResume(j) ==
    /\ pc[j] = "waited" /\ op[j] = "Install"
    /\ \E run \in AptCheckRuns, simStartOk \in BOOLEAN :
          LET err == CheckPkgSystemError(TRUE, run)
          IN  /\ precheck' = [precheck EXCEPT ![j] = Checked(TRUE, err)]
              /\ CheckedSafeStart(j, err, simStartOk)
    /\ lastAbort' = NoAbort /\ lastQuery' = NoQuery /\ UNCHANGED <<jobVars, fnVars, genVars>>
    /\ UNCHANGED <<lock, op, arg, scan, lastLocked, proc, pipe, written, markFailed>>

\* Variant of DistUpgradeTolerate: every error of the pre-check is tolerated
DistUpgradeTolerate_All(err) == NoError

\* DistUpgrade tolerates dependenciesBroken from the pre-check
DistUpgradeTolerate(err) ==
    IF ~IsNil(err) /\ err.Type # ErrTypeDependenciesBroken THEN err ELSE NoError

DistUpgradeResume(j) ==
    /\ pc[j] = "waited" /\ op[j] = "DistUpgrade"
    /\ \E run \in AptCheckRuns, simStartOk \in BOOLEAN :
          LET err == CheckPkgSystemError(TRUE, run)
          IN  /\ precheck' = [precheck EXCEPT ![j] = Checked(TRUE, err)]
              /\ CheckedSafeStart(j, DistUpgradeTolerate(err), simStartOk)
    /\ lastAbort' = NoAbort /\ lastQuery' = NoQuery /\ UNCHANGED <<jobVars, fnVars, genVars>>
    /\ UNCHANGED <<lock, op, arg, scan, lastLocked, proc, pipe, written, markFailed>>

FixErrorTypes == {ErrTypeDependenciesBroken, ErrTypeDpkgInterrupted, ErrTypeUnknown}

\* Variant of FixErrorResume: the command is started directly for every errType
FixErrorResume_AlwaysDirect(j) ==
    /\ pc[j] = "waited" /\ op[j] = "FixError"
    /\ newAPTCommand(j)
    /\ \E ok \in BOOLEAN : StartDirect(j, "FixError", ok) /\ UNCHANGED sim
    /\ lastAbort' = NoAbort /\ lastQuery' = NoQuery /\ UNCHANGED <<jobVars, fnVars, genVars>>
    /\ UNCHANGED <<op, arg, scan, lastLocked, pipe, written, markFailed, precheck>>

FixErrorResume(j) ==
    /\ pc[j] = "waited" /\ op[j] = "FixError"
    /\ newAPTCommand(j)
    /\ \E ok \in BOOLEAN :
          IF arg[j] = ErrTypeDependenciesBroken
          THEN safeStart(j, ok) /\ UNCHANGED <<proc, lock>>
          ELSE StartDirect(j, "FixError", ok) /\ UNCHANGED sim
    /\ lastAbort' = NoAbort /\ lastQuery' = NoQuery /\ UNCHANGED <<jobVars, fnVars, genVars>>
    /\ UNCHANGED <<op, arg, scan, lastLocked, pipe, written, markFailed, precheck>>

\* an operation that creates its command and starts it directly
EnterDirect(j, o, err, ok) ==
    /\ pc[j] = "idle"
    /\ op' = [op EXCEPT ![j] = o]
    /\ IF ~IsNil(err)
       THEN /\ Returned(j, err.Type)
            /\ UNCHANGED <<CmdSet, cancelable, events, proc, lock>>
       ELSE /\ newAPTCommand(j)
            /\ StartDirect(j, o, ok)
    /\ lastAbort' = NoAbort /\ lastQuery' = NoQuery /\ UNCHANGED <<jobVars, fnVars, genVars>>
    /\ UNCHANGED <<arg, scan, lastLocked, sim, pipe, written, markFailed>>

DownloadPackages(j) ==
    \E run \in AptCheckRuns, ok \in BOOLEAN :
        LET err == CheckPkgSystemError(FALSE, run)
        IN  /\ precheck' = [precheck EXCEPT ![j] = Checked(FALSE, err)]
            /\ EnterDirect(j, "DownloadPackages", err, ok)

DownloadSource(j) ==
    \E ok \in BOOLEAN : EnterDirect(j, "DownloadSource", NoError, ok) /\ UNCHANGED precheck

UpdateSource(j) ==
    \E ok \in BOOLEAN : EnterDirect(j, "UpdateSource", NoError, ok) /\ UNCHANGED precheck

Clean(j) == \E ok \in BOOLEAN : EnterDirect(j, "Clean", NoError, ok) /\ UNCHANGED precheck

\* Variant of UpdateSourceAtExitFn: Failed is indicated and false is returned
UpdateSourceAtExitFn_ReturnsFalse(exitOk, stderr) ==
    IF exitOk /\ Contains(stderr, "Some index files failed to download")
    THEN IF Contains(stderr, "No space left on device")
         THEN [ret |-> FALSE, emit |-> <<FailedRec(ErrorInsufficientSpace, FALSE)>>]
         ELSE [ret |-> FALSE, emit |-> <<FailedRec(ErrorIndexDownloadFailed, FALSE)>>]
    ELSE [ret |-> FALSE, emit |-> <<>>]

\* Variant of UpdateSourceAtExitFn: the exit code is not looked at
UpdateSourceAtExitFn_IgnoresExit(exitOk, stderr) ==
    IF Contains(stderr, "Some index files failed to download")
    THEN IF Contains(stderr, "No space left on device")
         THEN [ret |-> TRUE, emit |-> <<FailedRec(ErrorInsufficientSpace, FALSE)>>]
         ELSE [ret |-> TRUE, emit |-> <<FailedRec(ErrorIndexDownloadFailed, FALSE)>>]
    ELSE [ret |-> FALSE, emit |-> <<>>]

\* the AtExitFn installed by UpdateSource: [ret, emit], emit being what it indicates
UpdateSourceAtExitFn(exitOk, stderr) ==
    IF exitOk /\ Contains(stderr, "Some index files failed to download")
    THEN IF Contains(stderr, "No space left on device")
         THEN [ret |-> TRUE, emit |-> <<FailedRec(ErrorInsufficientSpace, FALSE)>>]
         ELSE [ret |-> TRUE, emit |-> <<FailedRec(ErrorIndexDownloadFailed, FALSE)>>]
    ELSE [ret |-> FALSE, emit |-> <<>>]

(***************************************************************************)
(* Command runner: the child, the reader of the progress pipe, the waiter. *)
(***************************************************************************)
ChildLines ==
    { "dlstatus:running:50:d ", "pmstatus:running:60: i", "pmerror:e:0:x",
      "media-change:m:0:x" }

ExitRuns ==
    { [exitOk |-> TRUE,  stderr |-> ""],
      [exitOk |-> TRUE,  stderr |-> "W: Some index files failed to download."],
      [exitOk |-> TRUE,
       stderr |-> "E: No space left on device\nW: Some index files failed to download."],
      [exitOk |-> FALSE, stderr |-> "E: Unmet dependencies."] }

\* the child writes one line to the progress pipe
ChildWrite(j) ==
    /\ pc[j] = "running"
    /\ proc[j].lockAtStart # "held"
    /\ written[j] < MaxLines
    /\ \E line \in ChildLines : pipe' = [pipe EXCEPT ![j] = Append(@, line)]
    /\ written' = [written EXCEPT ![j] = @ + 1]
    /\ lastAbort' = NoAbort /\ lastQuery' = NoQuery /\ UNCHANGED <<jobVars, fnVars, genVars>>
    /\ UNCHANGED <<lock, op, arg, pc, ret, scan, lastLocked, CmdSet, sim, proc,
                   events, cancelable, markFailed, precheck>>

\* the child exits; the operating system drops the locks it held
ChildExit(j) ==
    /\ pc[j] = "running"
    /\ \E run \in ExitRuns :
          /\ proc[j].lockAtStart = "held" => ~run.exitOk
          /\ proc' = [proc EXCEPT ![j].state = "exited", ![j].exitOk = run.exitOk,
                                  ![j].stderr = run.stderr]
    /\ pc' = [pc EXCEPT ![j] = "exited"]
    /\ lock' = [f \in LockFiles |-> IF lock[f] = j THEN "free" ELSE lock[f]]
    /\ lastAbort' = NoAbort /\ lastQuery' = NoQuery /\ UNCHANGED <<jobVars, fnVars, genVars>>
    /\ UNCHANGED <<op, arg, ret, scan, lastLocked, CmdSet, sim, pipe, written,
                   events, cancelable, markFailed, precheck>>

\* the reader: one line of the pipe is parsed and forwarded; a parse error is skipped
Deliver(j, line) ==
    LET info == parseProgressInfo(j, line)
    IN  IF info.err THEN UNCHANGED <<events, cancelable>>
        ELSE /\ events' = [events EXCEPT ![j] = Append(@, ProgressRec(info, line))]
             /\ cancelable' = [cancelable EXCEPT ![j] = info.Cancelable]

ReadProgress(j) ==
    /\ pipe[j] # <<>>
    /\ Deliver(j, Head(pipe[j]))
    /\ pipe' = [pipe EXCEPT ![j] = Tail(@)]
    /\ lastAbort' = NoAbort /\ lastQuery' = NoQuery /\ UNCHANGED <<jobVars, fnVars, genVars>>
    /\ UNCHANGED <<lock, op, arg, pc, ret, scan, lastLocked, CmdSet, sim, proc,
                   written, markFailed, precheck>>

\* Variant of ReaderDrained: the waiter does not wait for the reader
ReaderDrained_NoWait(j) == TRUE

\* the waiter classifies only when the reader has drained the pipe
ReaderDrained(j) == pipe[j] = <<>>

NoAtExitFn == [ret |-> FALSE, emit |-> <<>>]

\* Command.atExit: AtExitFn first, else Succeeded or the classified Failed
AtExitRecords(o, exitOk, stderr) ==
    LET fn == IF o = "UpdateSource" THEN UpdateSourceAtExitFn(exitOk, stderr)
              ELSE NoAtExitFn
    IN  fn.emit \o
        (IF fn.ret THEN <<>>
         ELSE IF exitOk THEN <<SucceedRec>>
         ELSE <<FailedRec(parseJobError(stderr, "").Type, FALSE)>>)

CommandWait(j) ==
    /\ pc[j] = "exited"
    /\ ReaderDrained(j)
    /\ LET exitOk == proc[j].exitOk /\ ~markFailed[j]
           recs   == AtExitRecords(op[j], exitOk, proc[j].stderr)
       IN  /\ events' = [events EXCEPT ![j] = @ \o recs]
           /\ cancelable' = [cancelable EXCEPT ![j] = recs[Len(recs)].cancelable]
    /\ CmdSet' = CmdSet \ {j}
    /\ proc' = [proc EXCEPT ![j].state = "reaped"]
    /\ pc' = [pc EXCEPT ![j] = "terminal"]
    /\ lastAbort' = NoAbort /\ lastQuery' = NoQuery /\ UNCHANGED <<jobVars, fnVars, genVars>>
    /\ UNCHANGED <<lock, op, arg, ret, scan, lastLocked, sim, pipe, written,
                   markFailed, precheck>>

\* End follows the terminal status
EmitEnd(j) ==
    /\ pc[j] = "terminal"
    /\ events' = [events EXCEPT ![j] = Append(@, EndRec)]
    /\ pc' = [pc EXCEPT ![j] = "done"]
    /\ lastAbort' = NoAbort /\ lastQuery' = NoQuery /\ UNCHANGED <<jobVars, fnVars, genVars>>
    /\ UNCHANGED <<lock, op, arg, ret, scan, lastLocked, CmdSet, sim, proc, pipe,
                   written, cancelable, markFailed, precheck>>

(***************************************************************************)
(* Abort / AbortWithFailed.  An outcome is [res, signal, mark]: the value  *)
(* returned, whether SIGINT was sent, whether the job was marked failed.   *)
(***************************************************************************)
\* Command.Abort / Command.AbortWithFailed: refused while not cancelable
CommandAbort(j, withFailed) ==
    IF cancelable[j]
    THEN [res |-> Nil, signal |-> proc[j].state = "running", mark |-> withFailed]
    ELSE [res |-> "notSupported", signal |-> FALSE, mark |-> FALSE]

NotFound == [res |-> NotFoundError, signal |-> FALSE, mark |-> FALSE]

FindCMD(id) == id \in CmdSet

\* Variant of Abort: the command is looked up by the job having been called
Abort_NoLookup(id) ==
    IF id \in JobIds /\ op[id] # "" THEN CommandAbort(id, FALSE) ELSE NotFound

Abort(id) == IF FindCMD(id) THEN CommandAbort(id, FALSE) ELSE NotFound

AbortWithFailed(id) == IF FindCMD(id) THEN CommandAbort(id, TRUE) ELSE NotFound

\* the latest record delivered for id is a pmstatus progress record
InPmstatus(id) ==
    /\ id \in JobIds
    /\ events[id] # <<>>
    /\ events[id][Len(events[id])].type = "progress"
    /\ events[id][Len(events[id])].kind = "pmstatus"

AbortCall(id, r) ==
    /\ lastAbort' = [called |-> TRUE, id |-> id, registered |-> id \in CmdSet,
                     inPm |-> InPmstatus(id),
                     running |-> id \in JobIds /\ proc[id].state = "running",
                     res |-> r.res, signal |-> r.signal, mark |-> r.mark]
    /\ markFailed' = IF r.mark THEN [markFailed EXCEPT ![id] = TRUE] ELSE markFailed
    /\ UNCHANGED <<lock, op, arg, pc, ret, scan, lastLocked, CmdSet, sim, proc, pipe,
                   written, events, cancelable, precheck>>
    /\ lastQuery' = NoQuery
    /\ UNCHANGED <<jobVars, fnVars, genVars>>

AbortIds == JobIds \cup {UnknownId}

(***************************************************************************)
(* Other processes taking and dropping the dpkg lock files.                *)
(***************************************************************************)
\* a job is between the start of its lock scan and the start of its real command
LockSensitive == \E j \in JobIds : pc[j] \in {"probe1", "probe2", "sleep", "waited", "sim"}

ExtLock(f) ==
    /\ LockSensitive
    /\ lock[f] \in {"free", "absent"}
    /\ lock' = [lock EXCEPT ![f] = "ext"]
    /\ lastAbort' = NoAbort /\ lastQuery' = NoQuery /\ UNCHANGED <<jobVars, fnVars, genVars>>
    /\ UNCHANGED <<op, arg, pc, ret, scan, lastLocked, CmdSet, sim, proc, pipe,
                   written, events, cancelable, markFailed, precheck>>

ExtUnlock(f) ==
    /\ LockSensitive
    /\ lock[f] = "ext"
    /\ lock' = [lock EXCEPT ![f] = "free"]
    /\ lastAbort' = NoAbort /\ lastQuery' = NoQuery /\ UNCHANGED <<jobVars, fnVars, genVars>>
    /\ UNCHANGED <<op, arg, pc, ret, scan, lastLocked, CmdSet, sim, proc, pipe,
                   written, events, cancelable, markFailed, precheck>>

(***************************************************************************)
(* Calls of the pure functions of the package, on inputs put together from *)
(* the fragments the functions look for.  call holds the name and the      *)
(* arguments of the latest call, result what it returned.                  *)
(***************************************************************************)
NoCall == [fn |-> ""]

NoResult == [fn |-> ""]

InitFn == call = NoCall /\ result = NoResult

\* pieces of the stderr of apt-get check
ErrFragments ==
    { "", "E: x. ", "dpkg was interrupted", "Unmet dependencies",
      "The list of sources could not be read" }

Stderrs == { a \o b : a \in ErrFragments, b \in ErrFragments }

Stdouts == { "", "Reading", UnmetHeader \o "\n a", "x\n" \o UnmetHeader \o "\n a" }

\* pieces of the stderr of apt-get update
UpdateFragments ==
    { "", "W: x. ", "Some index files failed to download", "No space left on device" }

UpdateStderrs == { a \o b : a \in UpdateFragments, b \in UpdateFragments }

\* progress lines: kind:status:number:description, and lines with fewer fields
LineKinds == { "dummy", "dlstatus", "pmstatus", "pmerror", "media-change", "pmconffile" }

LineStatuses == { "running", "succeed" }

LineNumbers ==
    { "0", "50", "100", "150", "-5", "0.5", "x", "", "1e2", "NaN", "33.33333", "20.6897",
      "0.7", "2e-324", "-0", "0x1p4", "Inf", "1e400" }

\* the second description is form feed, d, U+00A0
LineDescriptions == { " d ", "\fd ", "a:b" }

\* every kind with every number, and every kind with every status field and
\* every description; a three-field line, a one-field line, the empty line
ProgressLines ==
    { k \o ":running:" \o n \o ": d " : k \in LineKinds, n \in LineNumbers }
    \cup { k \o ":" \o s \o ":50:" \o d :
               k \in LineKinds, s \in LineStatuses, d \in LineDescriptions }
    \cup { "dlstatus:running:50", "pmstatus", "" }

FnFrame == UNCHANGED <<aptVars, jobVars, genVars>>

CallParsePkgSystemError ==
    /\ \E out \in Stdouts, err \in Stderrs :
          /\ call' = [fn |-> "parsePkgSystemError", out |-> out, err |-> err]
          /\ result' = [fn |-> "parsePkgSystemError", err |-> parsePkgSystemError(out, err)]
    /\ FnFrame

CallCheckPkgSystemError ==
    /\ \E exitOk \in BOOLEAN, out \in Stdouts, err \in Stderrs :
          /\ call' = [fn |-> "CheckPkgSystemError", lock |-> TRUE, exitOk |-> exitOk,
                      out |-> out, err |-> err]
          /\ result' = [fn |-> "CheckPkgSystemError",
                        err |-> CheckPkgSystemError(TRUE,
                                    [exitOk |-> exitOk, out |-> out, err |-> err])]
    /\ FnFrame

CallUpdateSourceAtExitFn ==
    /\ \E exitOk \in BOOLEAN, stderr \in UpdateStderrs :
          /\ call' = [fn |-> "UpdateSourceAtExitFn", exitOk |-> exitOk, stderr |-> stderr]
          /\ result' = [fn |-> "UpdateSourceAtExitFn",
                        out |-> UpdateSourceAtExitFn(exitOk, stderr)]
    /\ FnFrame

\* well-formed lines of the accepted kinds
AcceptedLines ==
    { "dummy:running:0.5:d", "dummy:succeed:0.5:d", "dummy:running:50:d",
      "dlstatus:running:50: d ", "dlstatus:succeed:50:d", "dlstatus:running:100:d",
      "pmstatus:running:50:d", "pmstatus:running:100:d",
      "pmerror:running:50:d", "pmerror:running:100:d" }

\* parseProgressInfo("a", line) for every line of the inputs
ParsedLines ==
    [line \in ProgressLines \cup AcceptedLines |-> parseProgressInfo("a", line)]

CallParseProgressInfo ==
    /\ \E line \in ProgressLines :
          /\ call' = [fn |-> "parseProgressInfo", id |-> "a", line |-> line]
          /\ result' = [fn |-> "parseProgressInfo", info |-> ParsedLines[line]]
    /\ FnFrame

\* parseProgressInfo on two lines, one after the other
CallParseProgressInfoTwice ==
    /\ \E line \in AcceptedLines, other \in AcceptedLines :
          /\ call' = [fn |-> "parseProgressInfoTwice", id |-> "a", line |-> line,
                      other |-> other]
          /\ result' = [fn |-> "parseProgressInfoTwice",
                        info |-> ParsedLines[line],
                        otherInfo |-> ParsedLines[other]]
    /\ FnFrame

NextFn ==
    \/ CallParsePkgSystemError
    \/ CallCheckPkgSystemError
    \/ CallUpdateSourceAtExitFn
    \/ CallParseProgressInfo
    \/ CallParseProgressInfoTwice

(***************************************************************************)
(* Manager.generateUpdateInfo: two goroutines compute the system and the   *)
(* security package list and store them in one map; the caller waits for   *)
(* both on a sync.WaitGroup and hands the map to the updater.  A store     *)
(* into a Go map is not atomic and the map has no lock: when two stores    *)
(* overlap, the build may keep both entries, lose one, or stop with        *)
(* "fatal error: concurrent map writes".                                   *)
(***************************************************************************)
Workers == {"system", "security"}

\* system.SystemUpdate.JobType() and system.SecurityUpdate.JobType()
MapKey(w) == IF w = "system" THEN "system_upgrade" ELSE "security_upgrade"

ListOutcomes == {"err", "nil", "list"}

RaceOutcomes == {"stored", "lost", "fatal"}

InitGen ==
    /\ gpc = "start" /\ wg = 0
    /\ wpc = [w \in Workers |-> "none"]
    /\ wres = [w \in Workers |-> "none"]
    /\ propPkgMap = {} /\ raced = FALSE /\ published = {}

GenFrame == UNCHANGED <<aptVars, jobVars, fnVars>>

\* wg.Add(1); go func() {...}() for the system list
GenGoSystem ==
    /\ gpc = "start"
    /\ wg' = wg + 1
    /\ wpc' = [wpc EXCEPT !["system"] = "fetch"]
    /\ gpc' = "go2"
    /\ UNCHANGED <<wres, propPkgMap, raced, published>>
    /\ GenFrame

\* wg.Add(1); go func() {...}() for the security list
GenGoSecurity ==
    /\ gpc = "go2"
    /\ wg' = wg + 1
    /\ wpc' = [wpc EXCEPT !["security"] = "fetch"]
    /\ gpc' = "wait"
    /\ UNCHANGED <<wres, propPkgMap, raced, published>>
    /\ GenFrame

\* getSystemUpdatePackageList / getSecurityUpdatePackageList returned
WorkerFetch(w) ==
    /\ gpc # "fatal" /\ wpc[w] = "fetch"
    /\ \E r \in ListOutcomes :
          /\ wres' = [wres EXCEPT ![w] = r]
          /\ wpc' = [wpc EXCEPT ![w] = IF r = "list" THEN "store" ELSE "finish"]
    /\ UNCHANGED <<gpc, wg, propPkgMap, raced, published>>
    /\ GenFrame

\* propPkgMap[...] = packageList: the store begins
WorkerStoreBegin(w) ==
    /\ gpc # "fatal" /\ wpc[w] = "store"
    /\ wpc' = [wpc EXCEPT ![w] = "storing"]
    /\ raced' = (raced \/ \E o \in Workers \ {w} : wpc[o] = "storing")
    /\ UNCHANGED <<gpc, wg, wres, propPkgMap, published>>
    /\ GenFrame

\* propPkgMap[...] = packageList: the store ends
WorkerStoreEnd(w) ==
    /\ gpc # "fatal" /\ wpc[w] = "storing"
    /\ \E outcome \in RaceOutcomes :
          /\ raced \/ outcome = "stored"
          /\ propPkgMap' = IF outcome = "stored" THEN propPkgMap \cup {MapKey(w)}
                           ELSE propPkgMap
          /\ gpc' = IF outcome = "fatal" THEN "fatal" ELSE gpc
    /\ wpc' = [wpc EXCEPT ![w] = "finish"]
    /\ UNCHANGED <<wg, wres, raced, published>>
    /\ GenFrame

\* wg.Done()
WorkerDone(w) ==
    /\ gpc # "fatal" /\ wpc[w] = "finish"
    /\ wpc' = [wpc EXCEPT ![w] = "done"]
    /\ wg' = wg - 1
    /\ UNCHANGED <<gpc, wres, propPkgMap, raced, published>>
    /\ GenFrame

\* wg.Wait() returns; m.updater.setClassifiedUpdatablePackages(propPkgMap); return
GenWaitPublish ==
    /\ gpc = "wait" /\ wg = 0
    /\ published' = propPkgMap
    /\ gpc' = "returned"
    /\ UNCHANGED <<wg, wpc, wres, propPkgMap, raced>>
    /\ GenFrame

NextGen ==
    \/ GenGoSystem
    \/ GenGoSecurity
    \/ \E w \in Workers : WorkerFetch(w)
    \/ \E w \in Workers : WorkerStoreBegin(w)
    \/ \E w \in Workers : WorkerStoreEnd(w)
    \/ \E w \in Workers : WorkerDone(w)
    \/ GenWaitPublish

(***************************************************************************)
(* The UpdateSource job of the manager: Manager.updateSource acquires a    *)
(* temporary source list and sets the job's hooks, handleUpdateSourceFailed*)
(* re-acquires on retry.  The job's life cycle (Ready, Running, Succeeded  *)
(* or Failed, End, and the retry arc) drives the hooks.                    *)
(***************************************************************************)
MaxRetry == 3

MaxObserved == 3

InitJob ==
    /\ jstatus = "none" /\ retry = 0 /\ acquired = <<>> /\ unrefCalls = <<>>
    /\ endHooks = <<>> /\ retries = 0 /\ jprogress = FZero /\ observed = <<>> /\ hookpc = ""

JobFrame == UNCHANGED <<aptVars, fnVars, genVars>>

\* system.CustomSourceWrapper hands the callback a path and a release
\* callback, or nil when there is nothing to release
Acquisition(hasUnref) == IF hasUnref THEN "unref" ELSE "nil"

\* "if unref != nil { unref() }": the number of calls it makes
CallUnref(hasUnref) == IF hasUnref THEN 1 ELSE 0

UpdateSourceOutcomes == {"createError", "exists", "statError", "addJobError", "ok"}

\* Variant of updateSourceCallback: addJob's error is returned without the release
updateSourceCallback_LeakOnAddJob(outcome, hasUnref) ==
    [ started  |-> outcome = "ok",
      calls    |-> IF outcome \in {"createError", "exists", "statError"}
                   THEN CallUnref(hasUnref) ELSE 0,
      endHook  |-> outcome \in {"addJobError", "ok"} ]

\* the callback Manager.updateSource passes to CustomSourceWrapper: whether the
\* job was added, the release calls made at once, whether the pre-hook of End
\* that releases was set
updateSourceCallback(outcome, hasUnref) ==
    [ started  |-> outcome = "ok",
      calls    |-> IF outcome # "ok" THEN CallUnref(hasUnref) ELSE 0,
      endHook  |-> outcome \in {"addJobError", "ok"} ]

\* Manager.updateSource; Job.retry is what CreateJob gave the job
UpdateSourceJob ==
    /\ jstatus = "none"
    /\ \E outcome \in UpdateSourceOutcomes, hasUnref \in BOOLEAN, r \in 0..MaxRetry :
          LET cb == updateSourceCallback(outcome, hasUnref)
          IN  /\ acquired' = <<Acquisition(hasUnref)>>
              /\ unrefCalls' = <<cb.calls>>
              /\ endHooks' = IF cb.endHook THEN <<1>> ELSE <<>>
              /\ jstatus' = IF cb.started THEN "ready" ELSE "rejected"
              /\ retry' = IF outcome \in {"createError", "exists"} THEN 0 ELSE r
    /\ UNCHANGED <<retries, jprogress, observed, hookpc>>
    /\ JobFrame

\* the float64 constants 0.01, 0.06, 0.90, 0.99 of the hooks
Progress001 == F64(1, -2)

Progress006 == F64(6, -2)

Progress090 == F64(9, -1)

Progress099 == F64(99, -2)

\* job.setPropProgress(v)
setPropProgress(v) ==
    /\ jprogress' = v
    /\ observed' = Append(observed, v)

\* Ready -> Running: a new command attempt, whose progress starts over
JobStart ==
    /\ jstatus = "ready"
    /\ jstatus' = "running"
    /\ hookpc' = "after1"
    /\ jprogress' = FZero
    /\ observed' = <<>>
    /\ UNCHANGED <<retry, acquired, unrefCalls, endHooks, retries>>
    /\ JobFrame

\* the after-hook of Running, up to its first call that can take long
RunningAfterHookBegin ==
    /\ jstatus = "running" /\ hookpc = "after1"
    /\ setPropProgress(Progress001)
    /\ hookpc' = "after2"
    /\ UNCHANGED <<jstatus, retry, acquired, unrefCalls, endHooks, retries>>
    /\ JobFrame

PlatformOutcomes == {"policyFailed", "dataFailed", "ok"}

\* the after-hook of Running, from genUpdatePolicyByToken on
RunningAfterHookEnd ==
    /\ jstatus = "running" /\ hookpc = "after2"
    /\ \E outcome \in PlatformOutcomes :
          IF outcome = "ok"
          THEN setPropProgress(Progress006) /\ UNCHANGED retry
          ELSE retry' = 0 /\ UNCHANGED <<jprogress, observed>>
    /\ hookpc' = "afterDone"
    /\ UNCHANGED <<jstatus, acquired, unrefCalls, endHooks, retries>>
    /\ JobFrame

\* the values of hookpc while the pre-hook of Succeeded runs
SucceedPreHook == {"preRefresh", "pre90", "pre99"}

JobLines ==
    { "dlstatus:running:0:d", "dlstatus:running:50:d", "dlstatus:running:100:d",
      "pmstatus:running:20:i", "pmerror:e:0:x", "media-change:m:0:x" }

\* what parseProgressInfo makes of the lines of the child
JobRecords == { parseProgressInfo("a", line) : line \in JobLines }

\* the reader delivers one record of the child to the job
JobReadProgress ==
    /\ jstatus = "running" /\ hookpc \notin SucceedPreHook
    /\ Len(observed) < MaxObserved
    /\ \E info \in JobRecords :
          IF info.err THEN UNCHANGED <<jprogress, observed>>
          ELSE setPropProgress(info.Progress)
    /\ UNCHANGED <<jstatus, retry, acquired, unrefCalls, endHooks, retries, hookpc>>
    /\ JobFrame

\* the command has ended with success: the pre-hook of Succeeded begins and
\* calls m.refreshUpdateInfos(true), which calls generateUpdateInfo
JobSucceedPreHookBegin ==
    /\ jstatus = "running" /\ hookpc = "afterDone"
    /\ hookpc' = "preRefresh"
    /\ UNCHANGED <<jstatus, retry, acquired, unrefCalls, endHooks, retries, jprogress,
                   observed>>
    /\ JobFrame

\* generateUpdateInfo and its workers, inside the pre-hook of Succeeded
JobRefreshUpdateInfos ==
    /\ jstatus = "running" /\ hookpc = "preRefresh"
    /\ NextGen

\* the pre-hook of Succeeded after refreshUpdateInfos returned: 0.90
JobSucceedPreHook90 ==
    /\ jstatus = "running" /\ hookpc = "preRefresh" /\ gpc = "returned"
    /\ setPropProgress(Progress090)
    /\ hookpc' = "pre90"
    /\ UNCHANGED <<jstatus, retry, acquired, unrefCalls, endHooks, retries>>
    /\ JobFrame

\* the pre-hook of Succeeded after its platform calls: 0.99, and it returns
JobSucceedPreHook99 ==
    /\ jstatus = "running" /\ hookpc = "pre90"
    /\ setPropProgress(Progress099)
    /\ hookpc' = "pre99"
    /\ UNCHANGED <<jstatus, retry, acquired, unrefCalls, endHooks, retries>>
    /\ JobFrame

\* Running -> Succeeded, between the pre-hook and the after-hook
JobSucceed ==
    /\ jstatus = "running" /\ hookpc = "pre99"
    /\ jstatus' = "succeed"
    /\ hookpc' = "afterSucceed"
    /\ UNCHANGED <<retry, acquired, unrefCalls, endHooks, retries, jprogress, observed>>
    /\ JobFrame

\* the after-hook of Succeeded: 1.00
JobSucceedAfterHook ==
    /\ jstatus = "succeed" /\ hookpc = "afterSucceed"
    /\ setPropProgress(FOne)
    /\ hookpc' = "afterDone"
    /\ UNCHANGED <<jstatus, retry, acquired, unrefCalls, endHooks, retries>>
    /\ JobFrame

FailKinds == {ErrorFetchFailed, ErrorIndexDownloadFailed, ErrorInsufficientSpace, ErrorUnknown}

Retryable(kind) == kind \in {ErrorFetchFailed, ErrorIndexDownloadFailed}

\* Variant of handleUpdateSourceFailed: j.retry is not clamped
handleUpdateSourceFailed_NoClamp(r, statOk, hasUnref) ==
    [ retry    |-> r,
      acquired |-> Acquisition(hasUnref),
      calls    |-> IF statOk THEN 0 ELSE CallUnref(hasUnref),
      endHook  |-> statOk ]

\* handleUpdateSourceFailed(j): j.retry after the clamp, the new acquisition,
\* the release calls made at once, whether a pre-hook of End was added
handleUpdateSourceFailed(r, statOk, hasUnref) ==
    [ retry    |-> IF r > 1 THEN 1 ELSE r,
      acquired |-> Acquisition(hasUnref),
      calls    |-> IF statOk THEN 0 ELSE CallUnref(hasUnref),
      endHook  |-> statOk ]

\* Running -> Failed with a retry credit and a retryable kind: the sub-retry
\* hook runs, one credit is consumed, the job is Ready again
JobFailRetry ==
    /\ jstatus = "running" /\ hookpc = "afterDone"
    /\ retry > 0
    /\ \E kind \in FailKinds, statOk \in BOOLEAN, hasUnref \in BOOLEAN :
          /\ Retryable(kind)
          /\ LET h == handleUpdateSourceFailed(retry, statOk, hasUnref)
             IN  /\ retry' = h.retry - 1
                 /\ acquired' = Append(acquired, h.acquired)
                 /\ unrefCalls' = Append(unrefCalls, h.calls)
                 /\ endHooks' = IF h.endHook THEN Append(endHooks, Len(acquired) + 1)
                                ELSE endHooks
    /\ retries' = retries + 1
    /\ jstatus' = "ready"
    /\ hookpc' = ""
    /\ UNCHANGED <<jprogress, observed>>
    /\ JobFrame

\* Running -> Failed for good
JobFail ==
    /\ jstatus = "running" /\ hookpc = "afterDone"
    /\ \E kind \in FailKinds : retry = 0 \/ ~Retryable(kind)
    /\ jstatus' = "failed"
    /\ UNCHANGED <<retry, acquired, unrefCalls, endHooks, retries, jprogress, observed,
                   hookpc>>
    /\ JobFrame

\* Succeeded or Failed -> End: the pre-hooks of End run, each once
JobEnd ==
    /\ jstatus \in {"succeed", "failed"} /\ hookpc # "afterSucceed"
    /\ jstatus' = "end"
    /\ unrefCalls' = [k \in 1..Len(unrefCalls) |->
                         unrefCalls[k]
                         + (IF \E i \in 1..Len(endHooks) : endHooks[i] = k
                            THEN CallUnref(acquired[k] = "unref") ELSE 0)]
    /\ UNCHANGED <<retry, acquired, endHooks, retries, jprogress, observed, hookpc>>
    /\ JobFrame

NextJob ==
    \/ UpdateSourceJob
    \/ JobStart
    \/ RunningAfterHookBegin
    \/ RunningAfterHookEnd
    \/ JobReadProgress
    \/ JobSucceedPreHookBegin
    \/ JobRefreshUpdateInfos
    \/ JobSucceedPreHook90
    \/ JobSucceedPreHook99
    \/ JobSucceed
    \/ JobSucceedAfterHook
    \/ JobFailRetry
    \/ JobFail
    \/ JobEnd

(***************************************************************************)
(* Specification.                                                          *)
(***************************************************************************)
Init ==
    /\ lock = [f \in LockFiles |-> "absent"]
    /\ op = [j \in JobIds |-> ""]
    /\ arg = [j \in JobIds |-> ""]
    /\ pc = [j \in JobIds |-> "idle"]
    /\ ret = [j \in JobIds |-> "none"]
    /\ scan = [j \in JobIds |-> <<>>]
    /\ lastLocked = [j \in JobIds |-> 0]
    /\ CmdSet = {}
    /\ sim = [j \in JobIds |-> NoSim]
    /\ proc = [j \in JobIds |-> NoProc]
    /\ pipe = [j \in JobIds |-> <<>>]
    /\ written = [j \in JobIds |-> 0]
    /\ events = [j \in JobIds |-> <<>>]
    /\ cancelable = [j \in JobIds |-> TRUE]
    /\ markFailed = [j \in JobIds |-> FALSE]
    /\ lastAbort = NoAbort
    /\ lastQuery = NoQuery
    /\ precheck = [j \in JobIds |-> NoCheck]
    /\ InitJob
    /\ InitFn
    /\ InitGen

\* One job with every operation, its child's progress lines and aborts.
Solo == {"a"}

Next ==
    \/ \E j \in Solo : Remove(j)
    \/ \E j \in Solo : Install(j)
    \/ \E j \in Solo : DistUpgrade(j)
    \/ \E j \in Solo : \E t \in FixErrorTypes : FixError(j, t)
    \/ \E j \in Solo : DownloadPackages(j)
    \/ \E j \in Solo : DownloadSource(j)
    \/ \E j \in Solo : UpdateSource(j)
    \/ \E j \in Solo : Clean(j)
    \/ \E j \in Solo : WaitDpkgLockRelease(j)
    \/ \E j \in Solo : RemoveResume(j)
    \/ \E j \in Solo : InstallResume(j)
    \/ \E j \in Solo : DistUpgradeResume(j)
    \/ \E j \in Solo : FixErrorResume(j)
    \/ \E j \in Solo : SafeStartWait(j)
    \/ \E j \in Solo : ChildWrite(j)
    \/ \E j \in Solo : ChildExit(j)
    \/ \E j \in Solo : ReadProgress(j)
    \/ \E j \in Solo : CommandWait(j)
    \/ \E j \in Solo : EmitEnd(j)
    \/ \E id \in AbortIds : AbortCall(id, Abort(id))
    \/ \E id \in AbortIds : AbortCall(id, AbortWithFailed(id))
    \/ \E f \in LockFiles : ExtLock(f)
    \/ \E f \in LockFiles : ExtUnlock(f)

Spec == Init /\ [][Next]_vars

\* Concurrent mutating operations of all the jobs, whose children write no
\* progress line, next to the other processes that take the dpkg lock.
NextConc ==
    \/ \E j \in JobIds : Remove(j)
    \/ \E j \in JobIds : Install(j)
    \/ \E j \in JobIds : DistUpgrade(j)
    \/ \E j \in JobIds : \E t \in FixErrorTypes : FixError(j, t)
    \/ \E j \in JobIds : WaitDpkgLockRelease(j)
    \/ \E j \in JobIds : RemoveResume(j)
    \/ \E j \in JobIds : InstallResume(j)
    \/ \E j \in JobIds : DistUpgradeResume(j)
    \/ \E j \in JobIds : FixErrorResume(j)
    \/ \E j \in JobIds : SafeStartWait(j)
    \/ \E j \in JobIds : ChildExit(j)
    \/ \E j \in JobIds : CommandWait(j)
    \/ \E j \in JobIds : EmitEnd(j)
    \/ \E f \in LockFiles : ExtLock(f)
    \/ \E f \in LockFiles : ExtUnlock(f)

SpecConc == Init /\ [][NextConc]_vars

\* One mutating operation next to the other processes that take the dpkg
\* lock.  The goroutine that runs WaitDpkgLockRelease is scheduled and its
\* time.Sleep ends: weak fairness of the sentinel's steps.
NextWait ==
    \/ \E j \in Solo : Remove(j)
    \/ \E j \in Solo : Install(j)
    \/ \E j \in Solo : DistUpgrade(j)
    \/ \E j \in Solo : \E t \in FixErrorTypes : FixError(j, t)
    \/ \E j \in Solo : WaitDpkgLockRelease(j)
    \/ \E j \in Solo : RemoveResume(j)
    \/ \E j \in Solo : InstallResume(j)
    \/ \E j \in Solo : DistUpgradeResume(j)
    \/ \E j \in Solo : FixErrorResume(j)
    \/ \E j \in Solo : SafeStartWait(j)
    \/ \E j \in Solo : ChildExit(j)
    \/ \E j \in Solo : CommandWait(j)
    \/ \E j \in Solo : EmitEnd(j)
    \/ \E f \in LockFiles : ExtLock(f)
    \/ \E f \in LockFiles : ExtUnlock(f)

SpecWait == Init /\ [][NextWait]_vars /\ \A j \in Solo : WF_vars(WaitDpkgLockRelease(j))

\* The UpdateSource job of the manager, from Manager.updateSource to End.
SpecJob == Init /\ [][NextJob]_vars

\* Manager.generateUpdateInfo and its two worker goroutines.
SpecGen == Init /\ [][NextGen]_vars

\* The pure functions called on every input of the input sets.
SpecFn == Init /\ [][NextFn]_vars

(***************************************************************************)
(* Properties.                                                             *)
(***************************************************************************)
IsTerminal(e) == e.type = "terminal"

IsEnd(e) == e.type = "end"

Terminals(j) == SelectSeq(events[j], IsTerminal)

Ends(j) == SelectSeq(events[j], IsEnd)

\* C1: the dpkg lock is free at the moment the real apt-get command of a
\* mutating job is started (no real command starts while another process or
\* another job's command holds a lock file).
C1_LockFreeAtRealStart == \A j \in JobIds : proc[j].lockAtStart # "held"

CleanScan == <<[file |-> DpkgLock, wait |-> FALSE],
               [file |-> DpkgLockFrontend, wait |-> FALSE]>>

SentinelReturned(j) ==
    op[j] \in MutatingOps /\ pc[j] \notin {"idle", "probe1", "probe2", "sleep"}

\* C2: WaitDpkgLockRelease has returned only from a scan that probed
\* /var/lib/dpkg/lock first and /var/lib/dpkg/lock-frontend second, neither
\* probe reporting a lock.
C2_ReturnsAfterCleanScan == \A j \in JobIds : SentinelReturned(j) => scan[j] = CleanScan

C2_Witness ==
    \E j \in JobIds : /\ pc[j] = "waited" /\ scan[j] = CleanScan
                      /\ lock[DpkgLock] = "free" /\ lock[DpkgLockFrontend] = "free"

\* C3: a probe that reports locked is followed by the sleep, and the step that
\* ends the sleep starts a new scan at the first file.
C3_SleepThenFirstFile ==
    [][\A j \in JobIds :
          /\ (pc[j] \in {"probe1", "probe2"} /\ pc'[j] # pc[j]
                /\ scan'[j][Len(scan'[j])].wait) => pc'[j] = "sleep"
          /\ (pc[j] = "sleep" /\ pc'[j] # "sleep")
                => (pc'[j] = "probe1" /\ scan'[j] = <<>>)]_vars

C3_Witness ==
    \E j \in JobIds : pc[j] = "probe1" /\ lastLocked[j] = 2 /\ scan[j] = <<>>

\* C4: after a simulation that exited with failure, exactly one Failed has been
\* indicated, with the classification of the simulation's output and
\* cancelable = false, and the real command was never started.
C4_SimFailureVetoes ==
    \A j \in JobIds :
        sim[j].exit = "fail" =>
            /\ proc[j].attempts = 0 /\ proc[j].state = "none"
            /\ Terminals(j) = <<FailedRec(parseJobError(sim[j].err, sim[j].out).Type, FALSE)>>

C4_Witness ==
    \E j \in JobIds : /\ sim[j].exit = "fail" /\ pc[j] = "done"
                      /\ Terminals(j) = <<FailedRec(ErrTypeDependenciesBroken, FALSE)>>

\* C5: after a simulation that exited successfully, if its stdout contains
\* "Remv dde " then Failed removeDDE with cancelable = true has been indicated
\* and the real command was never started; if not, the start of the real
\* command was attempted and removeDDE is not indicated.
C5_RemoveDDEVeto ==
    \A j \in JobIds :
        sim[j].exit = "ok" =>
            IF Contains(sim[j].out, RemvDDE)
            THEN /\ proc[j].attempts = 0 /\ proc[j].state = "none"
                 /\ Terminals(j) = <<FailedRec("removeDDE", TRUE)>>
            ELSE /\ proc[j].attempts = 1
                 /\ \A i \in 1..Len(events[j]) : events[j][i].kind # "removeDDE"

C5_Witness ==
    \E j \in JobIds : /\ sim[j].exit = "ok" /\ Contains(sim[j].out, RemvDDE)
                      /\ pc[j] = "done"

\* the start of a subprocess of the job failed
RealStartFailed(j) == proc[j].attempts = 1 /\ proc[j].state = "none"

StartFailed(j) == sim[j].exit = "nostart" \/ RealStartFailed(j)

\* C6 as stated: whenever the start of a subprocess of the job fails, the
\* operation returns the error and no status is emitted for the job.
C6_StartFailureIsSynchronous ==
    \A j \in JobIds : StartFailed(j) => (ret[j] = "startError" /\ events[j] = <<>>)

\* C6 as amended: a failed start of a directly started command, or of the
\* simulation of safeStart, is returned by the operation and no status is
\* emitted; a failed start of the real command of safeStart comes after the
\* operation returned nil and is indicated by one Failed of kind unknown.
C6_StartFailureAmended ==
    \A j \in JobIds :
        /\ (sim[j].exit = "nostart" \/ (sim[j].exit = "none" /\ RealStartFailed(j)))
              => (ret[j] = "startError" /\ events[j] = <<>>)
        /\ (sim[j].exit = "ok" /\ RealStartFailed(j))
              => /\ ret[j] = Nil
                 /\ Terminals(j) = <<FailedRec(ErrorUnknown, FALSE)>>

C6_Witness ==
    \E j \in JobIds : /\ sim[j].exit = "ok" /\ RealStartFailed(j)
                      /\ op[j] = "Install" /\ pc[j] = "done"

\* C7: for a job whose operation returned nil, at most one terminal status
\* (Succeeded or Failed) and at most one End are emitted, End comes last and
\* directly after the terminal status, and a finished job has exactly one of
\* each.
C7_OneTerminalOneEnd ==
    \A j \in JobIds :
        ret[j] = Nil =>
            /\ Len(Terminals(j)) <= 1
            /\ Len(Ends(j)) <= 1
            /\ Len(Ends(j)) = 1 =>
                  /\ Len(Terminals(j)) = 1
                  /\ events[j][Len(events[j])].type = "end"
                  /\ events[j][Len(events[j]) - 1].type = "terminal"
            /\ pc[j] = "terminal" => Len(Terminals(j)) = 1
            /\ pc[j] = "done" => Len(Ends(j)) = 1

C7_Witness ==
    \E j \in JobIds : /\ op[j] = "UpdateSource" /\ pc[j] = "done"
                      /\ Terminals(j) = <<FailedRec(ErrorInsufficientSpace, FALSE)>>

\* C8: in the records of a job, no progress record comes after a terminal
\* status or after End, and no terminal status comes after End.
C8_ProgressBeforeTerminal ==
    \A j \in JobIds : \A i, k \in 1..Len(events[j]) :
        i < k => /\ ~(events[j][i].type \in {"terminal", "end"}
                        /\ events[j][k].type = "progress")
                 /\ ~(events[j][i].type = "end" /\ events[j][k].type = "terminal")

C8_Witness ==
    \E j \in JobIds : /\ op[j] = "UpdateSource" /\ pc[j] = "done"
                      /\ Len(events[j]) = 4
                      /\ events[j][2].type = "progress"
                      /\ events[j][3] = FailedRec(ErrorIndexDownloadFailed, FALSE)

\* C9: an Abort or AbortWithFailed called while the latest record of the job
\* is a pmstatus record sends no signal, does not mark the job failed and
\* does not return success.
C9_NoAbortInPmstatus ==
    (lastAbort.called /\ lastAbort.inPm) =>
        (~lastAbort.signal /\ ~lastAbort.mark /\ lastAbort.res # Nil)

C9_Witness ==
    /\ lastAbort.called /\ lastAbort.inPm /\ lastAbort.registered /\ lastAbort.running
    /\ op[lastAbort.id] = "Install"

\* C10: Abort and AbortWithFailed return NotFound and signal nothing when no
\* command is registered for the id; when one is, the outcome is that of the
\* command's own abort.
C10_AbortNotFound ==
    lastAbort.called =>
        IF lastAbort.registered
        THEN lastAbort.res \in {Nil, "notSupported"}
        ELSE lastAbort.res = NotFoundError /\ ~lastAbort.signal /\ ~lastAbort.mark

C10_Witness ==
    /\ lastAbort.called /\ lastAbort.id \in JobIds /\ ~lastAbort.registered
    /\ pc[lastAbort.id] = "done" /\ proc[lastAbort.id].state = "reaped"
    /\ lastAbort.res = NotFoundError

\* a command (simulation or real) was created for the job
CommandCreated(j) == j \in CmdSet \/ sim[j].exit # "none" \/ proc[j].attempts > 0

\* C11: a mutating operation (Install, Remove, DistUpgrade, FixError) has
\* created or started a command (simulation or real) only after
\* WaitDpkgLockRelease returned from a clean scan and after it ran
\* CheckPkgSystemError(lock = true).
C11_WaitThenCheckThenCommand ==
    \A j \in JobIds :
        (op[j] \in MutatingOps /\ CommandCreated(j)) =>
            /\ scan[j] = CleanScan
            /\ precheck[j].called /\ precheck[j].lock

\* C12: when the pre-check returned an error, Install and Remove have returned
\* that error and created no command; DistUpgrade has done the same except for
\* dependenciesBroken, after which its command was created and safe-started.
C12_PreCheckErrorReturned ==
    \A j \in JobIds :
        (precheck[j].called /\ precheck[j].lock /\ precheck[j].res # Nil) =>
            IF op[j] = "DistUpgrade" /\ precheck[j].res = ErrTypeDependenciesBroken
            THEN sim[j].exit # "none" /\ ret[j] \in {Nil, "startError"}
            ELSE /\ ret[j] = precheck[j].res
                 /\ ~CommandCreated(j)
                 /\ events[j] = <<>>

C12_Witness ==
    \E j \in JobIds : /\ op[j] = "DistUpgrade"
                      /\ precheck[j].res = ErrTypeDependenciesBroken
                      /\ proc[j].state = "running" /\ ret[j] = Nil

IndexMarker == "Some index files failed to download"

SpaceMarker == "No space left on device"

\* C13: the AtExitFn of UpdateSource returns true exactly when the child
\* exited with success and stderr contains the index marker, and then it has
\* indicated one Failed, insufficientSpace with the space marker in stderr and
\* indexDownloadFailed without; otherwise it returns false and indicates nothing.
C13_AtExitFnOutcome ==
    call.fn = "UpdateSourceAtExitFn" =>
        LET hit == call.exitOk /\ Contains(call.stderr, IndexMarker)
        IN  /\ result.out.ret <=> hit
            /\ hit => /\ Len(result.out.emit) = 1
                      /\ result.out.emit[1].status = FailedStatus
                      /\ result.out.emit[1].kind =
                            IF Contains(call.stderr, SpaceMarker)
                            THEN ErrorInsufficientSpace ELSE ErrorIndexDownloadFailed
            /\ ~hit => result.out.emit = <<>>

C13_Witness ==
    /\ call.fn = "UpdateSourceAtExitFn" /\ call.exitOk
    /\ call.stderr = SpaceMarker \o IndexMarker
    /\ result.out.ret /\ result.out.emit[1].kind = ErrorInsufficientSpace

\* C17: every record parseProgressInfo returns without error has a progress
\* in [0,1] or equal to -1.
C17_ProgressInRange ==
    (call.fn = "parseProgressInfo" /\ ~result.info.err) =>
        \/ FEqual(result.info.Progress, FMinusOne)
        \/ (FLeq(FZero, result.info.Progress) /\ FLeq(result.info.Progress, FOne))

\* C18: parsePkgSystemError returns nil exactly when stderr is empty.
C18_NilIffEmptyStderr ==
    call.fn = "parsePkgSystemError" => (IsNil(result.err) <=> call.err = "")

C18_Witness ==
    /\ call.fn = "parsePkgSystemError" /\ call.err = "E: x. " /\ call.out = ""
    /\ result.err.Type = ErrTypeUnknown

IsSuffix(s, whole) ==
    Len(s) <= Len(whole) /\ SubSeq(whole, Len(whole) - Len(s) + 1, Len(whole)) = s

\* C19: for a non-empty stderr the kind is that of the first rule that
\* matches, in the order dpkg was interrupted, Unmet dependencies, The list of
\* sources could not be read, otherwise unknown; the detail of
\* dependenciesBroken is the stdout from the first unmet-dependencies header
\* on, or the whole stdout when there is none.
C19_FirstMatchWins ==
    (call.fn = "parsePkgSystemError" /\ call.err # "") =>
        LET e  == result.err
            m1 == Contains(call.err, "dpkg was interrupted")
            m2 == Contains(call.err, "Unmet dependencies")
            m3 == Contains(call.err, "The list of sources could not be read")
        IN  /\ m1 => e.Type = ErrTypeDpkgInterrupted
            /\ (~m1 /\ m2) =>
                  /\ e.Type = ErrTypeDependenciesBroken
                  /\ IsSuffix(e.Detail, call.out)
                  /\ IF Contains(call.out, UnmetHeader)
                     THEN /\ SubSeq(e.Detail, 1, Len(UnmetHeader)) = UnmetHeader
                          /\ ~Contains(SubSeq(call.out, 1, Len(call.out) - Len(e.Detail)
                                                 + Len(UnmetHeader) - 1), UnmetHeader)
                     ELSE e.Detail = call.out
            /\ (~m1 /\ ~m2 /\ m3) =>
                  (e.Type = ErrTypeInvalidSourcesList /\ e.Detail = call.err)
            /\ (~m1 /\ ~m2 /\ ~m3) => (e.Type = ErrTypeUnknown /\ e.Detail = call.err)

C19_Witness ==
    /\ call.fn = "parsePkgSystemError"
    /\ call.err = "Unmet dependencies" \o "dpkg was interrupted"
    /\ result.err.Type = ErrTypeDpkgInterrupted

ClassifiedKinds ==
    { ErrTypeDpkgInterrupted, ErrTypeDependenciesBroken, ErrTypeInvalidSourcesList,
      ErrTypeUnknown }

\* C20: CheckPkgSystemError(true) returns nil or an error whose kind is one of
\* dpkgInterrupted, dependenciesBroken, invalidSourceList, unknown, and nil
\* whenever apt-get check exited with success.
C20_CheckReturnsClassified ==
    (call.fn = "CheckPkgSystemError" /\ call.lock) =>
        /\ IsNil(result.err) \/ result.err.Type \in ClassifiedKinds
        /\ call.exitOk => IsNil(result.err)

C20_Witness ==
    /\ call.fn = "CheckPkgSystemError" /\ call.lock /\ ~call.exitOk
    /\ call.err = "E: x. " /\ result.err.Type = ErrTypeUnknown

\* the acquisitions whose release is a pre-hook of End
HookedAcquisitions == { endHooks[i] : i \in 1..Len(endHooks) }

\* C14: the release callback of every source-list acquisition of the job is
\* called at most once, not before End when it was left to the pre-hook of
\* End, and exactly once when the job has ended or was never started.
C14_UnrefExactlyOnce ==
    \A k \in 1..Len(acquired) :
        /\ acquired[k] = "nil" => unrefCalls[k] = 0
        /\ acquired[k] = "unref" =>
              /\ unrefCalls[k] <= 1
              /\ jstatus \in {"rejected", "end"} => unrefCalls[k] = 1
              /\ (jstatus \notin {"rejected", "end"} /\ k \in HookedAcquisitions)
                    => unrefCalls[k] = 0

C14_Witness ==
    /\ jstatus = "end" /\ retries = 1
    /\ acquired = <<"unref", "unref">> /\ unrefCalls = <<1, 1>>
    /\ HookedAcquisitions = {1, 2}

\* C15: the job re-enters Ready from Failed at most once; the step that takes
\* the retry arc starts with a retry counter above 0, leaves it at the clamped
\* counter less one credit, hence at most 1, and is the only step that counts
\* a retry.
C15_RetryAtMostOnce ==
    [][/\ retries' <= 1
       /\ retries' # retries =>
             /\ retries' = retries + 1
             /\ retry > 0
             /\ retry' = (IF retry > 1 THEN 1 ELSE retry) - 1
             /\ retry' < retry /\ retry' <= 1]_vars

C15_Witness == retries = 1 /\ retry = 0 /\ jstatus = "failed" /\ Len(acquired) = 2

\* C16: the progress values observed for the job within one command attempt,
\* those of the reader and those of the hooks, never decrease.
C16_ProgressNonDecreasing ==
    \A i, k \in 1..Len(observed) : i < k => FLeq(observed[i], observed[k])

(***************************************************************************)
(* Fields of a progress line, read off the text directly: the part before  *)
(* the first ':' and the part after it.                                    *)
(***************************************************************************)
RECURSIVE CountSep(_)
CountSep(s) ==
    IF s = "" THEN 0
    ELSE (IF SubSeq(s, 1, 1) = ":" THEN 1 ELSE 0) + CountSep(SubSeq(s, 2, Len(s)))

BeforeSep(s) == IF Index(s, ":") = -1 THEN s ELSE SubSeq(s, 1, Index(s, ":"))

AfterSep(s) == IF Index(s, ":") = -1 THEN "" ELSE SubSeq(s, Index(s, ":") + 2, Len(s))

LineKind(line) == BeforeSep(line)

LineStatus(line) == BeforeSep(AfterSep(line))

LineNumber(line) == BeforeSep(AfterSep(AfterSep(line)))

LineRemainder(line) == AfterSep(AfterSep(AfterSep(line)))

AcceptedKinds == { "dummy", "dlstatus", "pmstatus", "pmerror" }

ParsedLine == call.fn = "parseProgressInfo" /\ result.fn = "parseProgressInfo"

\* C21: a line with fewer than four ':'-separated fields is a parse error;
\* a line with four or more fields is split into its first three fields and
\* a fourth that is the whole remainder, embedded ':' included: it is
\* rejected only for its kind or its number, and the description of the
\* record is the trimmed remainder.
C21_FourFieldsRemainder ==
    ParsedLine =>
        IF CountSep(call.line) < 3
        THEN result.info.err
        ELSE /\ result.info.err <=>
                    \/ LineKind(call.line) \notin AcceptedKinds
                    \/ ~ParseFloat(LineNumber(call.line)).ok
             /\ ~result.info.err =>
                    result.info.Description = TrimSpace(LineRemainder(call.line))

C21_Witness ==
    /\ ParsedLine
    /\ CountSep(call.line) = 4
    /\ ~result.info.err
    /\ result.info.Description = "a:b"

C21_WitnessShort ==
    /\ ParsedLine
    /\ call.line = "dlstatus:running:50"
    /\ result.info.err

\* C22: a well-formed line is mapped by its kind: dummy keeps the progress
\* and the status field and is cancelable; dlstatus has progress/100, status
\* running, cancelable; pmstatus has progress/100, status running, not
\* cancelable; pmerror has status failed, cancelable; every other kind is a
\* parse error.
C22_MappedByKind ==
    (ParsedLine /\ CountSep(call.line) >= 3 /\ ParseFloat(LineNumber(call.line)).ok) =>
        LET kind == LineKind(call.line)
            number == ParseFloat(LineNumber(call.line)).val
            info == result.info
        IN  CASE kind = "dummy" ->
                    /\ ~info.err
                    /\ info.Progress = number
                    /\ info.Status = LineStatus(call.line)
                    /\ info.Cancelable
              [] kind = "dlstatus" ->
                    /\ ~info.err
                    /\ info.Progress = Div100(number)
                    /\ info.Status = RunningStatus
                    /\ info.Cancelable
              [] kind = "pmstatus" ->
                    /\ ~info.err
                    /\ info.Progress = Div100(number)
                    /\ info.Status = RunningStatus
                    /\ ~info.Cancelable
              [] kind = "pmerror" ->
                    /\ ~info.err
                    /\ info.Status = FailedStatus
                    /\ info.Cancelable
              [] OTHER -> info.err

C22_Witness ==
    /\ ParsedLine
    /\ LineKind(call.line) = "dlstatus"
    /\ LineStatus(call.line) = "succeed"
    /\ ~result.info.err
    /\ result.info.Status = RunningStatus
    /\ result.info.Progress = F64(5, -1)

C22_WitnessRejected ==
    /\ ParsedLine
    /\ LineKind(call.line) = "pmconffile"
    /\ ParseFloat(LineNumber(call.line)).ok
    /\ result.info.err

\* C23: a four-field pmerror line parses to a record with progress -1 and
\* status failed, whatever its third field holds.
C23_PmerrorAlwaysFailed ==
    (ParsedLine /\ CountSep(call.line) >= 3 /\ LineKind(call.line) = "pmerror") =>
        /\ ~result.info.err
        /\ result.info.Progress = FMinusOne
        /\ result.info.Status = FailedStatus

\* C23, for the lines the parser accepts: a four-field pmerror line whose
\* third field is a number parses to progress -1 and status failed.
C23_PmerrorNumeric ==
    (/\ ParsedLine
     /\ CountSep(call.line) >= 3
     /\ LineKind(call.line) = "pmerror"
     /\ ParseFloat(LineNumber(call.line)).ok) =>
        /\ ~result.info.err
        /\ result.info.Progress = FMinusOne
        /\ result.info.Status = FailedStatus

C23_Witness ==
    /\ ParsedLine
    /\ LineKind(call.line) = "pmerror"
    /\ LineNumber(call.line) = "50"
    /\ CountSep(call.line) = 3
    /\ ~result.info.err
    /\ result.info.Progress = FMinusOne
    /\ result.info.Status = FailedStatus

\* C24: parsing a line of an accepted kind and writing the record back as
\* kind:status:progress:description gives the line back field for field, up
\* to the whitespace trimmed from the description.  The record is all the
\* writer has, so two lines with the same record are the same line up to
\* that whitespace.
C24_RoundTrip ==
    (/\ call.fn = "parseProgressInfoTwice"
     /\ ~result.info.err /\ ~result.otherInfo.err
     /\ result.info = result.otherInfo) =>
        /\ LineKind(call.line) = LineKind(call.other)
        /\ LineStatus(call.line) = LineStatus(call.other)
        /\ LineNumber(call.line) = LineNumber(call.other)
        /\ TrimSpace(LineRemainder(call.line)) = TrimSpace(LineRemainder(call.other))

\* C24, for what the record keeps: two lines of accepted kinds with the same
\* record have the same trimmed description; two dummy lines with the same
\* record have the same status field and the same number; two lines of kind
\* dlstatus or pmstatus with the same record have the same kind and the same
\* number.
C24_RecordKeeps ==
    (/\ call.fn = "parseProgressInfoTwice"
     /\ ~result.info.err /\ ~result.otherInfo.err
     /\ result.info = result.otherInfo) =>
        LET k1 == LineKind(call.line)
            k2 == LineKind(call.other)
            n1 == ParseFloat(LineNumber(call.line)).val
            n2 == ParseFloat(LineNumber(call.other)).val
        IN  /\ TrimSpace(LineRemainder(call.line)) = TrimSpace(LineRemainder(call.other))
            /\ (k1 = "dummy" /\ k2 = "dummy") =>
                    LineStatus(call.line) = LineStatus(call.other) /\ n1 = n2
            /\ ({k1, k2} \subseteq {"dlstatus", "pmstatus"}) => k1 = k2 /\ n1 = n2

C24_Witness ==
    /\ call.fn = "parseProgressInfoTwice"
    /\ call.line = "dlstatus:running:50: d "
    /\ call.other = "dlstatus:succeed:50:d"
    /\ ~result.info.err
    /\ result.info = result.otherInfo

\* C29: CheckPkgSystemError returns nil only when apt-get check exited
\* with success; a run that exited with failure gives a non-nil error, also
\* when it wrote nothing to stderr.
C29_NilOnlyOnSuccess ==
    call.fn = "CheckPkgSystemError" => (IsNil(result.err) => call.exitOk)

SafeStarted(j) == sim[j].exit # "none"

RealStarted(j) == proc[j].attempts > 0

\* C25: Install, Remove and DistUpgrade start the real command only after a
\* simulation that succeeded; FixError goes through safeStart exactly when
\* errType is dependenciesBroken and starts its command directly for every
\* other errType; DownloadPackages, DownloadSource, UpdateSource and Clean
\* start their command directly, with no simulation.
C25_SafeStartOrDirect ==
    \A j \in JobIds :
        /\ SafeStarted(j) <=>
              /\ CommandCreated(j)
              /\ \/ op[j] \in {"Install", "Remove", "DistUpgrade"}
                 \/ op[j] = "FixError" /\ arg[j] = ErrTypeDependenciesBroken
        /\ (RealStarted(j) /\ SafeStarted(j)) => sim[j].exit = "ok"
        /\ (CommandCreated(j) /\ ~SafeStarted(j)) => RealStarted(j)

C25_Witness ==
    /\ op["a"] = "FixError" /\ arg["a"] = ErrTypeDpkgInterrupted
    /\ RealStarted("a") /\ ~SafeStarted("a")

C25_WitnessSafe ==
    /\ op["a"] = "FixError" /\ arg["a"] = ErrTypeDependenciesBroken
    /\ RealStarted("a") /\ sim["a"].exit = "ok"

C25_WitnessDirect ==
    /\ op["a"] = "Clean" /\ RealStarted("a") /\ ~SafeStarted("a")

LastProbe(j) == scan[j][Len(scan[j])]

\* C26: a lock file that cannot be opened counts as not locked: its probe
\* reports no wait and the sentinel does not sleep on it; when both files
\* cannot be opened the second probe returns from WaitDpkgLockRelease.
C26_UnopenedIsFree ==
    (lastQuery.called /\ lock[lastQuery.file] = "absent") =>
        /\ LastProbe(lastQuery.id) = [file |-> lastQuery.file, wait |-> FALSE]
        /\ pc[lastQuery.id] # "sleep"
        /\ (lastQuery.file = DpkgLockFrontend /\ lock[DpkgLock] = "absent") =>
               pc[lastQuery.id] = "waited"

C26_Witness ==
    /\ lastQuery.called /\ lastQuery.file = DpkgLockFrontend
    /\ \A f \in LockFiles : lock[f] = "absent"
    /\ pc[lastQuery.id] = "waited"

\* no lock file holds a write lock, and the latest lock query did not fail
LocksQuiet ==
    /\ \A f \in LockFiles : lock[f] \in {"absent", "free"}
    /\ ~lastQuery.failed

Waiting(j) == pc[j] \in {"probe1", "probe2", "sleep"}

\* C28: a lock query that fails counts as locked, so the sentinel sleeps and
\* scans again; and if from some point on no lock file holds a write lock
\* and no lock query fails, WaitDpkgLockRelease returns.
C28_SentinelTerminates ==
    /\ [](lastQuery.failed =>
              /\ pc[lastQuery.id] = "sleep"
              /\ LastProbe(lastQuery.id) = [file |-> lastQuery.file, wait |-> TRUE])
    /\ \A j \in Solo : (<>[]LocksQuiet) => (Waiting(j) ~> ~Waiting(j))

C28_Witness ==
    /\ lastQuery.called /\ lastQuery.failed
    /\ lock[lastQuery.file] = "free"
    /\ pc[lastQuery.id] = "sleep"

\* the latest step was an Abort or AbortWithFailed of job j that returned nil
\* while the simulation of safeStart was running for j
AbortedInSimulation(j) ==
    /\ lastAbort.called /\ lastAbort.id = j /\ lastAbort.res = Nil
    /\ pc[j] = "sim" /\ sim[j].exit = "running"

\* C27: an abort of job j that is accepted while the simulation of safeStart
\* runs takes effect: the real command of j is not started afterwards, also
\* when the simulation succeeds.
C27_AbortInSimulationStops ==
    [][\A j \in JobIds : AbortedInSimulation(j) => ~RealStarted(j)']_vars

\* C30: the two workers of generateUpdateInfo never store into propPkgMap at
\* the same time, setClassifiedUpdatablePackages gets the map only after
\* both workers have finished, and the map it gets holds the entry of every
\* worker whose list call succeeded.
C30_MapWritesDisjoint ==
    /\ ~(\A w \in Workers : wpc[w] = "storing")
    /\ gpc # "fatal"
    /\ gpc = "returned" =>
          /\ \A w \in Workers : wpc[w] = "done"
          /\ \A w \in Workers : wres[w] = "list" => MapKey(w) \in published

\* C30, the part the WaitGroup gives: the map is handed over only after both
\* workers have called wg.Done().
C30_PublishedAfterWorkers ==
    gpc = "returned" => \A w \in Workers : wpc[w] = "done"

=============================================================================
